---- MODULE Spec2Model ----
(***************************************************************************)
(* Model of control_bt.py: the BLE worker (BLEWorker) that drives a        *)
(* dual-channel signal generator, and the parts of the window              *)
(* (SignalGeneratorUI) that feed it.                                       *)
(*                                                                         *)
(* Frames are sequences of one-character strings, so that the text         *)
(* operations of the code (strip, split, startswith, int) are computed     *)
(* and not assumed.  A status value is a fraction [num, den]: the code's   *)
(* int(x) / 1000.0 is [num |-> x, den |-> 1000], an int is den 1.          *)
(*                                                                         *)
(* The worker's asyncio loop runs one coroutine at a time and switches     *)
(* only at an await; every action below is the code between two awaits.    *)
(***************************************************************************)
EXTENDS Integers, Sequences, FiniteSets, TLC

(***************************************************************************)
(* Bounds of the model                                                     *)
(***************************************************************************)
\* commands the window hands to queue_command in one behaviour
MaxCmds == 2
\* clicks on the refresh button in one behaviour
MaxClicks == 1
\* entries of read_commands that a refresh of the concurrent specification
\* walks (SpecFull walks the whole list)
MaxReads == 2
\* inbound notifications in flight at the start of a behaviour of SpecCodec
MaxFrames == 2

(***************************************************************************)
(* Text helpers: Python's str operations on sequences of characters        *)
(***************************************************************************)
Digit == <<"0", "1", "2", "3", "4", "5", "6", "7", "8", "9">>

DigitChars == {Digit[i] : i \in 1..10}

DigitVal(c) == (CHOOSE i \in 1..10 : Digit[i] = c) - 1

\* str.strip() with no argument strips these
Whitespace == {" ", "\r", "\n", "\t"}

\* value.strip('.\r\n') strips these
DotCrLf == {".", "\r", "\n"}

RECURSIVE LStrip(_, _)
LStrip(s, cs) ==
    IF s # <<>> /\ Head(s) \in cs THEN LStrip(Tail(s), cs) ELSE s

RECURSIVE RStrip(_, _)
RStrip(s, cs) ==
    IF s # <<>> /\ s[Len(s)] \in cs THEN RStrip(SubSeq(s, 1, Len(s) - 1), cs) ELSE s

\* s.strip(cs)
StripChars(s, cs) == RStrip(LStrip(s, cs), cs)

\* s.strip()
Strip(s) == StripChars(s, Whitespace)

\* s.startswith(p)
StartsWith(s, p) == Len(s) >= Len(p) /\ SubSeq(s, 1, Len(p)) = p

\* s.endswith(p)
EndsWith(s, p) == Len(s) >= Len(p) /\ SubSeq(s, Len(s) - Len(p) + 1, Len(s)) = p

\* c in s
Contains(s, c) == \E i \in 1..Len(s) : s[i] = c

\* index of the first c in s (s contains c)
FirstIndex(s, c) == CHOOSE i \in 1..Len(s) : s[i] = c /\ \A j \in 1..(i - 1) : s[j] # c

\* s.split(c): the pieces between every occurrence of c
RECURSIVE Split(_, _)
Split(s, c) ==
    IF ~Contains(s, c) THEN <<s>>
    ELSE <<SubSeq(s, 1, FirstIndex(s, c) - 1)>>
             \o Split(SubSeq(s, FirstIndex(s, c) + 1, Len(s)), c)

\* s.split(c, 1): at most two pieces, cut at the first c
SplitOnce(s, c) ==
    IF ~Contains(s, c) THEN <<s>>
    ELSE <<SubSeq(s, 1, FirstIndex(s, c) - 1), SubSeq(s, FirstIndex(s, c) + 1, Len(s))>>

\* s[k:] of Python (k counted from 0)
DropFirst(s, k) == IF Len(s) <= k THEN <<>> ELSE SubSeq(s, k + 1, Len(s))

RECURSIVE DigitsValue(_)
DigitsValue(s) ==
    IF s = <<>> THEN 0 ELSE 10 * DigitsValue(SubSeq(s, 1, Len(s) - 1)) + DigitVal(s[Len(s)])

AllDigits(s) == s # <<>> /\ \A i \in 1..Len(s) : s[i] \in DigitChars

\* the text int() looks at: surrounding whitespace removed, one sign removed
IntBody(s) ==
    IF Strip(s) # <<>> /\ Head(Strip(s)) \in {"+", "-"} THEN Tail(Strip(s)) ELSE Strip(s)

\* int(s) does not raise ValueError
IsInt(s) == AllDigits(IntBody(s))

\* int(s), for s with IsInt(s)
ToInt(s) ==
    IF Head(Strip(s)) = "-" THEN 0 - DigitsValue(IntBody(s)) ELSE DigitsValue(IntBody(s))

\* str(n) for n >= 0, as in an f-string
RECURSIVE Str(_)
Str(n) == IF n < 10 THEN <<Digit[n + 1]>> ELSE Str(n \div 10) \o <<Digit[(n % 10) + 1]>>

(***************************************************************************)
(* query_device_status: the list of read commands                          *)
(***************************************************************************)
\* PARAM_OFFSETS
PARAM_OFFSETS ==
    [waveform |-> 0, frequency |-> 2, amplitude |-> 4, offset |-> 6, duty |-> 18, phase |-> 0]

\* params of query_device_status, in its order
params == <<"waveform", "frequency", "amplitude", "offset", "duty", "phase">>

\* channels of query_device_status
channels == <<1, 2>>

\* f":r{cmd}=0."
ReadFrame(codeText) == <<":", "r">> \o codeText \o <<"=", "0", ".">>

\* ParamReadCommand with the duty codes shifted by one (20, 21 for 19, 20)
ParamReadCommand_Shifted(param, channel) ==
    IF param \in {"waveform", "frequency", "amplitude", "offset"}
    THEN ReadFrame(<<"1">> \o Str(channel + PARAM_OFFSETS[param]))
    ELSE IF param = "duty"
    THEN ReadFrame(Str(channel + 19))
    ELSE ReadFrame(<<"2">> \o Str(channel))

\* the command appended for one (param, channel) of the nested loop
ParamReadCommand(param, channel) ==
    IF param \in {"waveform", "frequency", "amplitude", "offset"}
    THEN ReadFrame(<<"1">> \o Str(channel + PARAM_OFFSETS[param]))
    ELSE IF param = "duty"
    THEN ReadFrame(Str(channel + 18))
    ELSE ReadFrame(<<"2">> \o Str(channel))

\* for cmd in range(lo, hi + 1): append f":r{cmd}=0."
RECURSIVE RangeReadCommands(_, _)
RangeReadCommands(lo, hi) ==
    IF lo > hi THEN <<>> ELSE <<ReadFrame(Str(lo))>> \o RangeReadCommands(lo + 1, hi)

\* the nested loop over params and channels, flattened in iteration order
ParamReadCommands ==
    [k \in 1..(Len(params) * Len(channels)) |->
        ParamReadCommand(params[((k - 1) \div Len(channels)) + 1],
                         channels[((k - 1) % Len(channels)) + 1])]

\* read_commands as query_device_status builds it
read_commands ==
    <<ReadFrame(<<"1", "0">>)>>
        \o ParamReadCommands
        \o RangeReadCommands(40, 56)
        \o RangeReadCommands(57, 61)
        \o RangeReadCommands(80, 86)
        \o <<ReadFrame(<<"6", "2">>), ReadFrame(<<"6", "3">>)>>

(***************************************************************************)
(* parse_status_response                                                   *)
(***************************************************************************)
\* a status value: num / den
Val(n, d) == [num |-> n, den |-> d]

\* self.status[key] = v
Put(st, key, v) == (key :> v) @@ st

\* what one run of parse_status_response leaves behind: the two dictionaries,
\* whether the except branch ran, and which signals were emitted
Outcome(st, md, r, su, mu) ==
    [status |-> st, measurement_data |-> md, raised |-> r,
     status_updated |-> su, measurement_updated |-> mu]

\* the except branch: whatever was stored before the exception stays
Raised(st, md) == Outcome(st, md, TRUE, FALSE, FALSE)

\* the end of the try block: status_updated is emitted
Parsed(st, md, mu) == Outcome(st, md, FALSE, TRUE, mu)

\* self.status[key] = int(value.strip('.\r\n')) / den
StoreSingle(st, md, key, value, den) ==
    IF IsInt(StripChars(value, DotCrLf))
    THEN Parsed(Put(st, key, Val(ToInt(StripChars(value, DotCrLf)), den)), md, FALSE)
    ELSE Raised(st, md)

\* the two assignments of a dual-channel code (40, 41, 42, 57..61)
StorePair(st, md, name, value) ==
    LET parts == Split(value, ",") IN
    IF Len(parts) < 2 THEN Parsed(st, md, FALSE)
    ELSE IF ~IsInt(Strip(parts[1])) THEN Raised(st, md)
    ELSE LET st1 == Put(st, <<1, name>>, Val(ToInt(Strip(parts[1])), 1)) IN
         IF ~IsInt(StripChars(parts[2], DotCrLf)) THEN Raised(st1, md)
         ELSE Parsed(Put(st1, <<2, name>>, Val(ToInt(StripChars(parts[2], DotCrLf)), 1)),
                     md, FALSE)

\* StoreFrequency in which the frequency is stored before the unit is converted
StoreFrequency_Eager(st, md, channel, value) ==
    LET parts == Split(value, ",") IN
    IF Len(parts) < 2 THEN Parsed(st, md, FALSE)
    ELSE IF ~IsInt(Strip(parts[1])) THEN Raised(st, md)
    ELSE LET st1 == Put(st, <<channel, "frequency">>, Val(ToInt(Strip(parts[1])), 1000)) IN
         IF ~IsInt(StripChars(parts[2], DotCrLf)) THEN Raised(st1, md)
         ELSE Parsed(Put(st1, <<channel, "freq_unit">>,
                         Val(ToInt(StripChars(parts[2], DotCrLf)), 1)),
                     md, FALSE)

\* codes 13, 14: both fields are converted before either is stored
StoreFrequency(st, md, channel, value) ==
    LET parts == Split(value, ",") IN
    IF Len(parts) < 2 THEN Parsed(st, md, FALSE)
    ELSE IF ~IsInt(Strip(parts[1])) \/ ~IsInt(StripChars(parts[2], DotCrLf))
    THEN Raised(st, md)
    ELSE Parsed(Put(Put(st, <<channel, "frequency">>, Val(ToInt(Strip(parts[1])), 1000)),
                    <<channel, "freq_unit">>, Val(ToInt(StripChars(parts[2], DotCrLf)), 1)),
                md, FALSE)

\* codes 17, 18
StoreOffset(st, md, channel, value) ==
    IF ~IsInt(StripChars(value, DotCrLf)) THEN Raised(st, md)
    ELSE LET offset_val == ToInt(StripChars(value, DotCrLf)) IN
         IF offset_val = 1000
         THEN Parsed(Put(st, <<channel, "offset">>, Val(0, 1)), md, FALSE)
         ELSE Parsed(Put(st, <<channel, "offset">>, Val(offset_val - 1000, 100)), md, FALSE)

\* cmd_type == '10'
ParseOutput(st, md, value) ==
    LET parts == Split(value, ",") IN
    IF Len(parts) < 2 THEN Parsed(st, md, FALSE)
    ELSE Parsed(Put(Put(st, <<1, "output">>, Strip(parts[1]) = <<"1">>),
                    <<2, "output">>, Strip(parts[2]) = <<"1">>),
                md, FALSE)

\* the branch for the r1x series: cmd_num = int(cmd_type[1])
ParseSeries1(st, md, cmd_type, value) ==
    IF Len(cmd_type) < 2 \/ ~IsInt(<<cmd_type[2]>>) THEN Raised(st, md)
    ELSE LET cmd_num == ToInt(<<cmd_type[2]>>) IN
         IF cmd_num <= 2 THEN StoreSingle(st, md, <<cmd_num, "waveform">>, value, 1)
         ELSE IF cmd_num <= 4 THEN StoreFrequency(st, md, cmd_num - 2, value)
         ELSE IF cmd_num <= 6 THEN StoreSingle(st, md, <<cmd_num - 4, "amplitude">>, value, 1000)
         ELSE IF cmd_num <= 8 THEN StoreOffset(st, md, cmd_num - 6, value)
         ELSE IF cmd_num = 9 THEN StoreSingle(st, md, <<1, "duty">>, value, 100)
         ELSE IF cmd_num = 0 THEN StoreSingle(st, md, <<2, "duty">>, value, 100)
         ELSE Parsed(st, md, FALSE)

\* the branch for the r2x series: num = int(cmd_type[1]); channel = num
ParseSeries2(st, md, cmd_type, value) ==
    IF Len(cmd_type) < 2 \/ ~IsInt(<<cmd_type[2]>>) THEN Raised(st, md)
    ELSE LET num == ToInt(<<cmd_type[2]>>) IN
         IF num <= 2 THEN StoreSingle(st, md, <<num, "phase">>, value, 100)
         ELSE Parsed(st, md, FALSE)

\* the single-value codes of the modulation bank: 43..56 -> (channel, name, divisor)
ModulationSingle ==
    [c \in 43..56 |->
        <<2 - (c % 2),
          CASE c \in {43, 44} -> "mod_freq"
            [] c \in {45, 46} -> "am_depth"
            [] c \in {47, 48} -> "fm_deviation"
            [] c \in {49, 50} -> "fsk_hopping"
            [] c \in {51, 52} -> "pm_phase"
            [] c \in {53, 54} -> "pulse_width"
            [] c \in {55, 56} -> "pulse_period",
          CASE c \in {43, 44, 53, 54} -> 1000
            [] c \in {55, 56} -> 100
            [] OTHER -> 10>>]

\* the dual-channel codes: code -> name
PairName ==
    [c \in {40, 41, 42, 57, 58, 59, 60, 61} |->
        CASE c = 40 -> "mod_type"
          [] c = 41 -> "mod_wave"
          [] c = 42 -> "mod_source"
          [] c = 57 -> "pulse_inversion"
          [] c = 58 -> "burst_idle"
          [] c = 59 -> "polarity"
          [] c = 60 -> "trigger_source"
          [] c = 61 -> "burst_count"]

\* the branch for r40..r56, entered with cmd_num = int(cmd_type)
ParseModulation(st, md, cmd_num, value) ==
    IF cmd_num \in {40, 41, 42} THEN StorePair(st, md, PairName[cmd_num], value)
    ELSE IF cmd_num \in 43..56
    THEN StoreSingle(st, md, <<ModulationSingle[cmd_num][1], ModulationSingle[cmd_num][2]>>,
                     value, ModulationSingle[cmd_num][3])
    ELSE Parsed(st, md, FALSE)

\* the branch for r57..r61
ParseBurst(st, md, cmd_num, value) == StorePair(st, md, PairName[cmd_num], value)

\* the measurement readings: code -> (key, divisor)
MeasurementKey ==
    [c \in 80..86 |->
        CASE c = 80 -> <<"count", 1>>
          [] c = 81 -> <<"high_freq", 1000>>
          [] c = 82 -> <<"low_freq", 1000>>
          [] c = 83 -> <<"pos_pulse_width", 1000>>
          [] c = 84 -> <<"neg_pulse_width", 1000>>
          [] c = 85 -> <<"period", 100>>
          [] c = 86 -> <<"duty_cycle", 100>>]

\* ParseMeasurement in which a reading is stored in the status dictionary as
\* well
ParseMeasurement_IntoStatus(st, md, cmd_num, value) ==
    IF cmd_num \in 80..86
    THEN IF IsInt(StripChars(value, DotCrLf))
         THEN Parsed(Put(st, <<1, MeasurementKey[cmd_num][1]>>,
                         Val(ToInt(StripChars(value, DotCrLf)), MeasurementKey[cmd_num][2])),
                     Put(md, MeasurementKey[cmd_num][1],
                         Val(ToInt(StripChars(value, DotCrLf)), MeasurementKey[cmd_num][2])),
                     TRUE)
         ELSE Raised(st, md)
    ELSE Parsed(st, md, TRUE)

\* the branch for cmd_type.startswith('8'), entered with cmd_num = int(cmd_type)
ParseMeasurement(st, md, cmd_num, value) ==
    IF cmd_num \in 80..86
    THEN IF IsInt(StripChars(value, DotCrLf))
         THEN Parsed(st,
                     Put(md, MeasurementKey[cmd_num][1],
                         Val(ToInt(StripChars(value, DotCrLf)), MeasurementKey[cmd_num][2])),
                     TRUE)
         ELSE Raised(st, md)
    ELSE Parsed(st, md, TRUE)

\* the if / elif ladder on cmd_type, conditions evaluated in the code's order
ParseLadder(st, md, cmd_type, value) ==
    IF cmd_type = <<"1", "0">> THEN ParseOutput(st, md, value)
    ELSE IF StartsWith(cmd_type, <<"1">>) \/ StartsWith(cmd_type, <<"2">>)
    THEN IF ~IsInt(cmd_type) THEN Raised(st, md)
         ELSE IF ToInt(cmd_type) <= 22
         THEN IF StartsWith(cmd_type, <<"1">>)
              THEN ParseSeries1(st, md, cmd_type, value)
              ELSE ParseSeries2(st, md, cmd_type, value)
         ELSE Parsed(st, md, FALSE)
    ELSE IF StartsWith(cmd_type, <<"4">>)
    THEN IF ~IsInt(cmd_type) THEN Raised(st, md)
         ELSE ParseModulation(st, md, ToInt(cmd_type), value)
    ELSE IF StartsWith(cmd_type, <<"5">>)
    THEN IF ~IsInt(cmd_type) THEN Raised(st, md)
         ELSE IF ToInt(cmd_type) <= 56 THEN ParseModulation(st, md, ToInt(cmd_type), value)
         ELSE IF ToInt(cmd_type) <= 61 THEN ParseBurst(st, md, ToInt(cmd_type), value)
         ELSE Parsed(st, md, FALSE)
    ELSE IF StartsWith(cmd_type, <<"8">>)
    THEN IF ~IsInt(cmd_type) THEN Raised(st, md)
         ELSE ParseMeasurement(st, md, ToInt(cmd_type), value)
    ELSE Parsed(st, md, FALSE)

\* parse_status_response without the test for '=': the unpacking of the split
\* raises and the except branch reports it
parse_status_response_Unguarded(st, md, response) ==
    IF Contains(response, "=")
    THEN ParseLadder(st, md, DropFirst(Strip(SplitOnce(response, "=")[1]), 2),
                     SplitOnce(response, "=")[2])
    ELSE Raised(st, md)

\* parse_status_response(response)
parse_status_response(st, md, response) ==
    IF Contains(response, "=")
    THEN ParseLadder(st, md, DropFirst(Strip(SplitOnce(response, "=")[1]), 2),
                     SplitOnce(response, "=")[2])
    ELSE Outcome(st, md, FALSE, FALSE, FALSE)

(***************************************************************************)
(* The window's encoders: int(value * scale) on binary64 floats            *)
(***************************************************************************)
\* A spin box with d decimals holds the double nearest to units / 10^d, for
\* an integer number of units.  The operators below compute what the float
\* expressions of the encoders evaluate to, exactly, in integers.

\* 2^n
RECURSIVE Pow2(_)
Pow2(n) == IF n <= 0 THEN 1 ELSE 2 * Pow2(n - 1)

\* 2^n modulo m
RECURSIVE Pow2Mod(_, _)
Pow2Mod(n, m) == IF n <= 0 THEN 1 % m ELSE (2 * Pow2Mod(n - 1, m)) % m

\* the integer f with b * 2^f <= a < b * 2^(f + 1), for a, b >= 1
RECURSIVE BinadeUp(_, _, _)
BinadeUp(a, b, f) == IF a >= b * Pow2(f + 1) THEN BinadeUp(a, b, f + 1) ELSE f

RECURSIVE BinadeDown(_, _, _)
BinadeDown(a, b, f) == IF a * Pow2(-f) < b THEN BinadeDown(a, b, f - 1) ELSE f

Binade(a, b) == IF a >= b THEN BinadeUp(a, b, 0) ELSE BinadeDown(a, b, 0)

\* value = the double nearest to units / scale has a 53-bit significand q with
\* q = units * 2^s / scale rounded to nearest, ties to even, s = 52 - f.  So
\* value * scale = units + D * 2^-s exactly, with D the rounding error below.
ScaledError(units, scale) ==
    LET f == Binade(units, scale)
        s == 52 - f
        rem == ((units % scale) * Pow2Mod(s, scale)) % scale
        floorParity ==
            (((((units % (2 * scale)) * Pow2Mod(s, 2 * scale)) % (2 * scale)) - rem)
                \div scale) % 2
    IN  [f |-> f,
         D |-> IF 2 * rem < scale THEN 0 - rem
               ELSE IF 2 * rem > scale THEN scale - rem
               ELSE IF floorParity = 0 THEN 0 - rem ELSE scale - rem]

\* rounding n + D * 2^-s to a double, n a positive integer; the doubles at n
\* are 2^g of the units 2^-s apart (twice as dense below a power of two).
\* -1: the result is below n, 0: it is n, 1: it is above n
Nearest(n, D, g) ==
    IF D = 0 THEN 0
    ELSE IF g <= 0 THEN (IF D < 0 THEN -1 ELSE 1)
    ELSE LET step == Pow2(g)
             below == IF n = Pow2(Binade(n, 1)) THEN step \div 2 ELSE step
         IN  IF D > 0 THEN (IF 2 * D > step THEN 1 ELSE 0)
             ELSE IF below <= 1 THEN -1
             ELSE IF 2 * (0 - D) > below THEN -1 ELSE 0

\* round(value * scale) in place of int(value * scale)
TruncScaled_Rounded(units, scale) == units

\* int(value * scale) for value = units / scale >= 0
TruncScaled(units, scale) ==
    IF units = 0 THEN 0
    ELSE LET err == ScaledError(units, scale)
         IN  IF Nearest(units, err.D, Binade(units, 1) - err.f) < 0
             THEN units - 1
             ELSE units

\* the float value * scale = units + R * 2^-s: R is D rounded to the doubles
ProductError(units, scale) ==
    LET err == ScaledError(units, scale)
        g == Binade(units, 1) - err.f
        step == Pow2(g)
        below == IF units = Pow2(Binade(units, 1)) THEN step \div 2 ELSE step
        near == Nearest(units, err.D, g)
        q == (0 - err.D) \div below
        r == (0 - err.D) % below
    IN  IF near = 0 THEN 0
        ELSE IF near > 0 THEN step
        ELSE 0 - below * (IF 2 * r > below THEN q + 1
                          ELSE IF 2 * r = below THEN q + (q % 2)
                          ELSE q)

\* the offset branch of update_parameter for value = h / 100 volts:
\* 1000 if value == 0, else int(1000 + value * 100)
OffsetWire(h) ==
    IF h = 0 THEN 1000
    ELSE LET k == IF h < 0 THEN 0 - h ELSE h
             R == ProductError(k, 100)
             E == IF h < 0 THEN 0 - R ELSE R
             n == 1000 + h
         IN  IF n = 0 THEN 0
             ELSE IF Nearest(n, E, Binade(n, 1) - Binade(k, 100)) < 0
             THEN n - 1
             ELSE n

\* the widgets a command is built from are named as the status fields are:
\* <<channel, name>>.  The resolution of a spin box: units per 1.0
Scale ==
    [frequency |-> 1000, amplitude |-> 1000, offset |-> 100, duty |-> 100, phase |-> 100,
     mod_freq |-> 1000, am_depth |-> 10, fm_deviation |-> 10, fsk_hopping |-> 10,
     pm_phase |-> 10, pulse_width |-> 1000, pulse_period |-> 100]

\* f":{cmd}={value}"
WriteFrame(codeText, valueText) == <<":", "w">> \o codeText \o <<"=">> \o valueText

\* update_parameter whose output frame carries the changed channel's flag and 0
\* for the other channel
update_parameter_OtherOff(w, channel, param_type) ==
    IF param_type = "output"
    THEN WriteFrame(<<"1", "0">>,
                    (IF channel = 1 /\ w[<<1, "output">>] THEN <<"1">> ELSE <<"0">>)
                        \o <<",">>
                        \o (IF channel = 2 /\ w[<<2, "output">>] THEN <<"1">> ELSE <<"0">>)
                        \o <<".">>)
    ELSE LET value ==
                 CASE param_type = "waveform" -> Str(w[<<channel, "waveform">>]) \o <<".">>
                   [] param_type = "frequency" ->
                        Str(TruncScaled(w[<<channel, "frequency">>], 1000)) \o <<",">>
                            \o Str(w[<<channel, "freq_unit">>]) \o <<".">>
                   [] param_type = "amplitude" ->
                        Str(TruncScaled(w[<<channel, "amplitude">>], 1000)) \o <<".">>
                   [] param_type = "offset" ->
                        Str(OffsetWire(w[<<channel, "offset">>])) \o <<".">>
                   [] param_type = "duty" ->
                        Str(TruncScaled(w[<<channel, "duty">>], 100)) \o <<".">>
                   [] param_type = "phase" ->
                        Str(TruncScaled(w[<<channel, "phase">>], 100)) \o <<".">>
             cmd ==
                 IF param_type \in {"waveform", "frequency", "amplitude", "offset"}
                 THEN <<"1">> \o Str(channel + PARAM_OFFSETS[param_type])
                 ELSE IF param_type = "duty" THEN Str(18 + channel)
                 ELSE <<"2">> \o Str(channel)
         IN  WriteFrame(cmd, value)

\* the command update_parameter(channel, param_type, state) queues; w holds the
\* widgets' values after the change that triggered it
update_parameter(w, channel, param_type) ==
    IF param_type = "output"
    THEN WriteFrame(<<"1", "0">>,
                    (IF w[<<1, "output">>] THEN <<"1">> ELSE <<"0">>) \o <<",">>
                        \o (IF w[<<2, "output">>] THEN <<"1">> ELSE <<"0">>) \o <<".">>)
    ELSE LET value ==
                 CASE param_type = "waveform" -> Str(w[<<channel, "waveform">>]) \o <<".">>
                   [] param_type = "frequency" ->
                        Str(TruncScaled(w[<<channel, "frequency">>], 1000)) \o <<",">>
                            \o Str(w[<<channel, "freq_unit">>]) \o <<".">>
                   [] param_type = "amplitude" ->
                        Str(TruncScaled(w[<<channel, "amplitude">>], 1000)) \o <<".">>
                   [] param_type = "offset" ->
                        Str(OffsetWire(w[<<channel, "offset">>])) \o <<".">>
                   [] param_type = "duty" ->
                        Str(TruncScaled(w[<<channel, "duty">>], 100)) \o <<".">>
                   [] param_type = "phase" ->
                        Str(TruncScaled(w[<<channel, "phase">>], 100)) \o <<".">>
             cmd ==
                 IF param_type \in {"waveform", "frequency", "amplitude", "offset"}
                 THEN <<"1">> \o Str(channel + PARAM_OFFSETS[param_type])
                 ELSE IF param_type = "duty" THEN Str(18 + channel)
                 ELSE <<"2">> \o Str(channel)
         IN  WriteFrame(cmd, value)

\* the single-value modulation encoders: name -> the code before channel 1's
ModulationBase ==
    [mod_freq |-> 42, am_depth |-> 44, fm_deviation |-> 46, fsk_hopping |-> 48,
     pm_phase |-> 50, pulse_width |-> 52, pulse_period |-> 54]

\* update_modulation_frequency, update_am_depth, update_fm_deviation,
\* update_fsk_hopping, update_pm_phase, update_pulse_width, update_pulse_period:
\* f":w{base + channel}={int(value * scale)}."
update_modulation_value(name, channel, units) ==
    WriteFrame(Str(ModulationBase[name] + channel),
               Str(TruncScaled(units, Scale[name])) \o <<".">>)

\* update_modulation_type, _wave, _source, update_pulse_inversion,
\* update_burst_idle, update_polarity, update_trigger_source, update_burst_count:
\* f":w{code}={value},{other_value}." with other_value read from the other
\* channel's widget
update_pair(w, code, channel, value) ==
    WriteFrame(Str(code),
               Str(value) \o <<",">>
                   \o Str(w[<<IF channel = 1 THEN 2 ELSE 1, PairName[code]>>]) \o <<".">>)

\* update_measurement_coupling, also run by update_gate_time and
\* update_freq_range: f":w62={coupling},{gate_time},{freq_range}."
update_measurement_coupling(w) ==
    WriteFrame(<<"6", "2">>,
               Str(w[<<0, "coupling">>]) \o <<",">>
                   \o Str(TruncScaled(w[<<0, "gate_time">>], 1000)) \o <<",">>
                   \o Str(w[<<0, "freq_range">>]) \o <<".">>)

\* update_sweep_time, also run by update_sweep_direction and update_sweep_mode:
\* f":w64={channel},{sweep_time},{direction},{sweep_mode}."
update_sweep_time(w) ==
    WriteFrame(<<"6", "4">>,
               Str(w[<<0, "sweep_channel">>]) \o <<",">>
                   \o Str(TruncScaled(w[<<0, "sweep_time">>], 100)) \o <<",">>
                   \o Str(w[<<0, "direction">>]) \o <<",">>
                   \o Str(w[<<0, "sweep_mode">>]) \o <<".">>)

(***************************************************************************)
(* State                                                                   *)
(***************************************************************************)
VARIABLES
    loop,              \* self.loop is set
    running,           \* self.running
    is_connected,      \* self.client.is_connected
    subscribed,        \* notification_handler is registered with the client
    mainPc,            \* the await run_ble_client is suspended at
    command_queue,     \* self.command_queue
    calls,             \* callbacks handed to the loop by run_coroutine_threadsafe
    refreshing,        \* self.refreshing
    tasks,             \* the running query_device_status coroutines
    status,            \* self.status
    measurement_data,  \* self.measurement_data
    inbox,             \* notifications the device has sent and bleak not yet delivered
    lastNotif,         \* what the last run of notification_handler did
    wlog,              \* the latest call of client.write_gatt_char (empty before the first)
    events,            \* the refresh signals emitted by the latest step that emitted any
    connEvents,        \* the arguments of connected.emit, in order
    diag,              \* kind of the latest error text emitted on message_received
    uiSignals,         \* refresh signals queued to the window's thread
    uiEnabled,         \* the controls of all_ui_controls are enabled
    stopped,           \* closeEvent has called stop(): the window's thread is in wait()
    nCmds,             \* calls of queue_command so far
    nClicks,           \* clicks on the refresh button so far
    nreads,            \* entries of read_commands a refresh walks
    widgets            \* the values the window's controls show, by <<channel, name>>

vars ==
    <<loop, running, is_connected, subscribed, mainPc, command_queue, calls, refreshing,
      tasks, status, measurement_data, inbox, lastNotif, wlog, events, connEvents, diag,
      uiSignals, uiEnabled, stopped, nCmds, nClicks, nreads, widgets>>

\* the variables only notification_handler writes
codecVars == <<status, measurement_data, inbox, lastNotif>>

\* the variables only the window's thread writes
uiVars == <<uiEnabled, stopped, nCmds, nClicks, widgets>>

CRLF == <<"\r", "\n">>

\* the kinds of error text the worker emits on message_received
DiagKinds ==
    {"not_connected", "send_error", "parse_error", "notification_error", "connection_error"}

\* refresh task 0 is the query_device_status awaited by run_ble_client; task k > 0
\* is the coroutine scheduled by the k-th click on the refresh button
TaskIds == 0..MaxClicks

\* the commands a refresh sends
Reads == SubSeq(read_commands, 1, nreads)

\* total_commands
total_commands == Len(Reads)

\* texts typed into the command line
UICommands ==
    {<<":", "w", "1", "1", "=", "0", ".">>}

\* commands handed to queue_command with and without the terminator, whole or
\* in part
TerminatedTexts ==
    {<<":", "w", "1", "1", "=", "0", ".">>,
     <<":", "w", "1", "2", "=", "1", ".", "\r", "\n">>,
     <<":", "w", "1", "5", "=", "5", ".", "\r">>}

\* texts typed into the command line, a frame or not
TypedTexts == UICommands \cup {<<"h", "e", "l", "l", "o">>}

\* a byte sequence that is not UTF-8
BadBytes == <<"\\xff">>

\* data.decode('utf-8') does not raise
Decodable(data) == data # BadBytes

\* notifications the device sends in the codec specification
InboundFrames ==
    {<<":", "r", "1", "1", "=", "3", ".", "\r", "\n">>,
     <<":", "r", "9", "9", "g", "a", "r", "b", "a", "g", "e">>,
     <<":", "r", "1", "0", "=", "1", ",", "0", ".", "\r", "\n">>,
     <<":", "r", "1", "5", "=", "5", "0", "0", "0", ".", "\r", "\n">>,
     <<":", "r", "1", "3", "=", "1", "0", "0", "0", ",", "1", ".", "\r", "\n">>,
     <<":", "r", "2", "0", "=", "5", "0", "0", "0", ".", "\r", "\n">>,
     <<":", "r", "4", "0", "=", "1", ",", "x", ".", "\r", "\n">>,
     <<":", "r", "8", "1", "=", "7", "5", "0", ".", "\r", "\n">>,
     <<":", "r", "6", "2", "=", "1", ".", "\r", "\n">>,
     <<":", "w", "1", "1", "=", "0", ".", "\r", "\n">>,
     <<":", "r", "1", "1">>,
     <<"=">>,
     <<":", "r", "1", "1", "=", "x", ".", "\r", "\n">>,
     <<":", "r", "1", "3", "=", "1", "0", "0", "0", ",", "x", ".", "\r", "\n">>,
     <<":", "r", "1", "0", "=", "x", ",", "y", ".", "\r", "\n">>,
     <<":", "r", "5", "7", "=", "2", ",", "x", ".", "\r", "\n">>,
     <<":", "r", "8", "1", "=", "x", ".", "\r", "\n">>,
     <<":", "r", "9", "9", "=", "1", ".", "\r", "\n">>,
     <<":", "r", "8", "7", "=", "1", ".", "\r", "\n">>,
     <<":", "r", "3", "0", "=", "1", ".", "\r", "\n">>,
     <<":", "r", "1", "0", "=", "1", ".", "\r", "\n">>,
     <<":", "r", "1", "3", "=", "1", "0", "0", "0", ".", "\r", "\n">>,
     <<":", "r", "4", "0", "=", "1", ".", "\r", "\n">>,
     <<":", "r", "5", "7", "=", "1", ".", "\r", "\n">>,
     <<":", "r", "6", "0", "=", "1", ",", "x", ".", "\r", "\n">>,
     <<"\r", "\n", ":", "r", "1", "2", "=", "4", ".", "\r", "\n">>,
     BadBytes}

\* well-formed read responses the device sends in the decode specification:
\* one for each code 11..22, the offsets 1000, 1250 and 750, the four output
\* combinations and the codes 62 and 63
ReadResponses ==
    {<<":", "r", "1", "1", "=", "3", ".", "\r", "\n">>,
     <<":", "r", "1", "2", "=", "4", ".", "\r", "\n">>,
     <<":", "r", "1", "3", "=", "1", "0", "0", "0", ",", "1", ".", "\r", "\n">>,
     <<":", "r", "1", "4", "=", "2", "0", "0", "0", ",", "2", ".", "\r", "\n">>,
     <<":", "r", "1", "5", "=", "5", "0", "0", "0", ".", "\r", "\n">>,
     <<":", "r", "1", "6", "=", "2", "5", "0", "0", ".", "\r", "\n">>,
     <<":", "r", "1", "7", "=", "1", "2", "5", "0", ".", "\r", "\n">>,
     <<":", "r", "1", "8", "=", "7", "5", "0", ".", "\r", "\n">>,
     <<":", "r", "1", "9", "=", "2", "8", "0", "0", ".", "\r", "\n">>,
     <<":", "r", "2", "0", "=", "5", "0", "0", "0", ".", "\r", "\n">>,
     <<":", "r", "2", "1", "=", "9", "0", "0", "0", ".", "\r", "\n">>,
     <<":", "r", "2", "2", "=", "4", "5", "0", "0", ".", "\r", "\n">>,
     <<":", "r", "1", "7", "=", "1", "0", "0", "0", ".", "\r", "\n">>,
     <<":", "r", "1", "7", "=", "7", "5", "0", ".", "\r", "\n">>,
     <<":", "r", "1", "0", "=", "0", ",", "0", ".", "\r", "\n">>,
     <<":", "r", "1", "0", "=", "0", ",", "1", ".", "\r", "\n">>,
     <<":", "r", "1", "0", "=", "1", ",", "0", ".", "\r", "\n">>,
     <<":", "r", "1", "0", "=", "1", ",", "1", ".", "\r", "\n">>,
     <<":", "r", "6", "2", "=", "1", ".", "\r", "\n">>,
     <<":", "r", "6", "3", "=", "2", ".", "\r", "\n">>}

\* the measurement readings 80..86, and responses of other codes next to them
MeasurementResponses ==
    {<<":", "r", "8", "0", "=", "4", "2", ".", "\r", "\n">>,
     <<":", "r", "8", "1", "=", "7", "5", "0", ".", "\r", "\n">>,
     <<":", "r", "8", "2", "=", "1", "5", "0", "0", ".", "\r", "\n">>,
     <<":", "r", "8", "3", "=", "2", "0", "0", ".", "\r", "\n">>,
     <<":", "r", "8", "4", "=", "3", "0", "0", ".", "\r", "\n">>,
     <<":", "r", "8", "5", "=", "5", "0", "0", ".", "\r", "\n">>,
     <<":", "r", "8", "6", "=", "2", "5", "0", "0", ".", "\r", "\n">>,
     <<":", "r", "8", "1", "=", "9", "0", "0", ".", "\r", "\n">>,
     <<":", "r", "8", "7", "=", "1", ".", "\r", "\n">>,
     <<":", "r", "1", "1", "=", "3", ".", "\r", "\n">>,
     <<":", "r", "1", "0", "=", "1", ",", "0", ".", "\r", "\n">>,
     <<":", "r", "4", "4", "=", "5", "0", "0", ".", "\r", "\n">>,
     <<":", "r", "6", "2", "=", "1", ".", "\r", "\n">>}

\* the sequences over S of length at most n
SeqsUpTo(S, n) == UNION {[1..k -> S] : k \in 0..n}

\* the names of the controls of one channel: the combo boxes and the burst
\* count hold an index or a count, the spin boxes a number of units
ComboNames ==
    {"waveform", "freq_unit", "mod_type", "mod_wave", "mod_source", "pulse_inversion",
     "burst_idle", "polarity", "trigger_source", "burst_count"}
SpinNames == DOMAIN Scale

\* the controls of the measurement and sweep tabs, which belong to no channel:
\* the gate time in units of 0.001 s, the sweep time in units of 0.01 s
MeasurementNames == {"coupling", "gate_time", "freq_range"}
SweepNames == {"sweep_channel", "sweep_time", "direction", "sweep_mode"}
WidgetKeys ==
    ({1, 2} \X (ComboNames \cup SpinNames \cup {"output"}))
        \cup ({0} \X (MeasurementNames \cup SweepNames))

\* the values the controls are created with (setValue; a combo box shows its
\* first item; the enable boxes are unchecked)
InitialWidgets ==
    [key \in WidgetKeys |->
        CASE key[2] = "output" -> FALSE
          [] key[2] = "frequency" -> 1000000
          [] key[2] = "amplitude" -> 5000
          [] key[2] = "duty" -> 5000
          [] key[2] = "mod_freq" -> 500000
          [] key[2] = "am_depth" -> 800
          [] key[2] \in {"fm_deviation", "fsk_hopping"} -> 20000
          [] key[2] = "pm_phase" -> 1800
          [] key[2] = "pulse_width" -> 100
          [] key[2] = "pulse_period" -> 1000
          [] key[2] = "burst_count" -> 1000
          [] key[2] = "gate_time" -> 20
          [] key[2] = "sweep_time" -> 1000
          [] OTHER -> 0]

\* the state after SignalGeneratorUI.__init__: the worker is constructed and its
\* thread started, run() has not executed yet
InitCommon ==
    /\ loop = FALSE
    /\ running = FALSE
    /\ is_connected = FALSE
    /\ subscribed = FALSE
    /\ mainPc = "init"
    /\ command_queue = <<>>
    /\ calls = <<>>
    /\ refreshing = FALSE
    /\ tasks = [t \in TaskIds |-> [pc |-> "idle", i |-> 0]]
    /\ status = <<>>
    /\ measurement_data = <<>>
    /\ lastNotif = [handled |-> FALSE]
    /\ wlog = <<>>
    /\ events = <<>>
    /\ connEvents = <<>>
    /\ diag = "none"
    /\ uiSignals = <<>>
    /\ uiEnabled = TRUE
    /\ stopped = FALSE
    /\ nCmds = 0
    /\ nClicks = 0
    /\ widgets = InitialWidgets

Init ==
    /\ InitCommon
    /\ inbox = <<>>
    /\ nreads = MaxReads

(***************************************************************************)
(* Shared pieces of the worker's coroutines                                *)
(***************************************************************************)
\* message_received.emit of an error text of kind k
Bump(k) == k

\* refresh_progress.emit(i, total_commands)
Progress(i) == [sig |-> "progress", i |-> i, total |-> total_commands]

\* send_command that appends '\r\n' to every command
Wire_Always(command) == command \o CRLF

\* send_command: command += '\r\n' unless it already ends with it
Wire(command) == IF EndsWith(command, CRLF) THEN command ELSE command \o CRLF

\* commands accepted by queue_command and not yet taken by the dispatch loop
Pending(q, c) == Len(q) + Cardinality({k \in DOMAIN c : c[k].kind = "put"})

\* one call of write_gatt_char: the bytes, the caller (the dispatch loop or a
\* refresh), for a queued command its enqueue number and whether it was queued
\* while the initial refresh ran, and whether the dispatch loop's call has raised
WriteEntry(command, src, seq, early, q) ==
    [frame |-> Wire(command), src |-> src, seq |-> seq, early |-> early,
     during |-> FALSE, pending |-> Pending(q, calls), lost |-> FALSE]

\* the query_device_status that run_ble_client awaits is between its
\* refresh_started and its refresh_completed
InitialRefreshRuns == tasks[0].pc \in {"write", "settle", "sleep"}

\* client.connect() has returned successfully at some point
EverConnected == connEvents # <<>> /\ connEvents[1]

\* the event loop is running callbacks
LoopAlive == mainPc \notin {"init", "done"}

\* where run_ble_client goes when an iteration of its while loop ends:
\* back to the queue, or into the finally block
MainNext == IF running THEN "get" ELSE IF is_connected THEN "stopnotify" ELSE "done"

\* the finally block of run_ble_client entered from an exception
FinallyPc == IF is_connected THEN "stopnotify" ELSE "done"

\* the connected.emit(False) at the end of the finally block
ConnAfter(pc, ce) == IF pc = "done" THEN Append(ce, FALSE) ELSE ce

\* RefreshSend in which a refresh stops reporting progress once the client is
\* not connected
RefreshSend_Silent(t, idx, ev) ==
    IF is_connected
    THEN /\ tasks' = [tasks EXCEPT ![t] = [pc |-> "write", i |-> idx]]
         /\ wlog' = <<WriteEntry(Reads[idx + 1], "refresh", 0, FALSE, command_queue)>>
         /\ events' = IF ev = <<>> THEN events ELSE ev
         /\ diag' = diag
    ELSE /\ tasks' = [tasks EXCEPT ![t] = [pc |-> "sleep", i |-> idx]]
         /\ wlog' = wlog
         /\ events' = IF ev = <<>> THEN events ELSE ev
         /\ diag' = Bump("not_connected")

\* task t calls send_command(Reads[idx + 1]); ev are the signals it emitted just
\* before.  Not connected: send_command returns at once and the loop body goes on
\* to emit the progress and to sleep 0.2.  Connected: it awaits write_gatt_char.
RefreshSend(t, idx, ev) ==
    IF is_connected
    THEN /\ tasks' = [tasks EXCEPT ![t] = [pc |-> "write", i |-> idx]]
         /\ wlog' = <<WriteEntry(Reads[idx + 1], "refresh", 0, FALSE, command_queue)>>
         /\ events' = IF ev = <<>> THEN events ELSE ev
         /\ diag' = diag
    ELSE /\ tasks' = [tasks EXCEPT ![t] = [pc |-> "sleep", i |-> idx]]
         /\ wlog' = wlog
         /\ events' = ev \o <<Progress(idx + 1)>>
         /\ diag' = Bump("not_connected")

\* query_device_status up to its first await
RefreshBegin(t) ==
    /\ refreshing' = TRUE
    /\ uiSignals' = Append(uiSignals, "started")
    /\ RefreshSend(t, 0, <<[sig |-> "started"]>>)

(***************************************************************************)
(* run() and run_ble_client                                                *)
(***************************************************************************)
\* run(): the loop is created, running is set, run_ble_client awaits connect
Run ==
    /\ mainPc = "init"
    /\ loop' = TRUE
    /\ running' = TRUE
    /\ mainPc' = "connect"
    /\ UNCHANGED <<is_connected, subscribed, command_queue, calls, refreshing, tasks,
                   wlog, events, connEvents, diag, uiSignals, nreads>>
    /\ UNCHANGED codecVars
    /\ UNCHANGED uiVars

\* client.connect() returns
ConnectOk ==
    /\ mainPc = "connect"
    /\ is_connected' = TRUE
    /\ connEvents' = Append(connEvents, TRUE)
    /\ mainPc' = "notify"
    /\ UNCHANGED <<loop, running, subscribed, command_queue, calls, refreshing, tasks,
                   wlog, events, diag, uiSignals, nreads>>
    /\ UNCHANGED codecVars
    /\ UNCHANGED uiVars

\* ConnectFail in which the exception of client.connect() is swallowed and
\* run_ble_client goes on to enable notifications and to refresh
ConnectFail_Continues ==
    /\ mainPc = "connect"
    /\ diag' = Bump("connection_error")
    /\ connEvents' = connEvents \o <<FALSE>>
    /\ mainPc' = "notify"
    /\ UNCHANGED <<loop, running, is_connected, subscribed, command_queue, calls,
                   refreshing, tasks, wlog, events, uiSignals, nreads>>
    /\ UNCHANGED codecVars
    /\ UNCHANGED uiVars

\* client.connect() raises: the except branch, then the finally block
ConnectFail ==
    /\ mainPc = "connect"
    /\ diag' = Bump("connection_error")
    /\ connEvents' = connEvents \o <<FALSE, FALSE>>
    /\ mainPc' = "done"
    /\ UNCHANGED <<loop, running, is_connected, subscribed, command_queue, calls,
                   refreshing, tasks, wlog, events, uiSignals, nreads>>
    /\ UNCHANGED codecVars
    /\ UNCHANGED uiVars

\* start_notify returns; query_device_status runs to its first await
StartNotifyOk ==
    /\ mainPc = "notify"
    /\ subscribed' = TRUE
    /\ mainPc' = "refresh"
    /\ RefreshBegin(0)
    /\ UNCHANGED <<loop, running, is_connected, command_queue, calls, connEvents, nreads>>
    /\ UNCHANGED codecVars
    /\ UNCHANGED uiVars

\* start_notify raises: the except branch, then the finally block
StartNotifyFail ==
    /\ mainPc = "notify"
    /\ diag' = Bump("connection_error")
    /\ mainPc' = FinallyPc
    /\ connEvents' = ConnAfter(FinallyPc, Append(connEvents, FALSE))
    /\ UNCHANGED <<loop, running, is_connected, subscribed, command_queue, calls,
                   refreshing, tasks, wlog, events, uiSignals, nreads>>
    /\ UNCHANGED codecVars
    /\ UNCHANGED uiVars

\* LoopGet in which the command sent stays at the head of the queue
LoopGet_Peek ==
    /\ mainPc = "get"
    /\ command_queue # <<>>
    /\ command_queue' = command_queue
    /\ IF is_connected
       THEN /\ wlog' = <<[WriteEntry(Head(command_queue).cmd, "loop",
                                          Head(command_queue).seq,
                                          Head(command_queue).early,
                                          Tail(command_queue))
                                  EXCEPT !.during = Head(command_queue).during]>>
            /\ mainPc' = "write"
            /\ UNCHANGED <<diag, connEvents>>
       ELSE /\ diag' = Bump("not_connected")
            /\ mainPc' = MainNext
            /\ connEvents' = ConnAfter(MainNext, connEvents)
            /\ wlog' = wlog
    /\ UNCHANGED <<loop, running, is_connected, subscribed, calls, refreshing, tasks,
                   events, uiSignals, nreads>>
    /\ UNCHANGED codecVars
    /\ UNCHANGED uiVars

\* the dispatch loop: command_queue.get() returns a command, send_command runs
\* to its await of write_gatt_char, or returns because the client is not connected
LoopGet ==
    /\ mainPc = "get"
    /\ command_queue # <<>>
    /\ command_queue' = Tail(command_queue)
    /\ IF is_connected
       THEN /\ wlog' = <<[WriteEntry(Head(command_queue).cmd, "loop",
                                          Head(command_queue).seq,
                                          Head(command_queue).early,
                                          Tail(command_queue))
                                  EXCEPT !.during = Head(command_queue).during]>>
            /\ mainPc' = "write"
            /\ UNCHANGED <<diag, connEvents>>
       ELSE /\ diag' = Bump("not_connected")
            /\ mainPc' = MainNext
            /\ connEvents' = ConnAfter(MainNext, connEvents)
            /\ wlog' = wlog
    /\ UNCHANGED <<loop, running, is_connected, subscribed, calls, refreshing, tasks,
                   events, uiSignals, nreads>>
    /\ UNCHANGED codecVars
    /\ UNCHANGED uiVars

\* the dispatch loop: wait_for times out on the empty queue, the while
\* condition is evaluated again
LoopTimeout ==
    /\ mainPc = "get"
    /\ command_queue = <<>>
    /\ mainPc' = MainNext
    /\ connEvents' = ConnAfter(MainNext, connEvents)
    /\ UNCHANGED <<loop, running, is_connected, subscribed, command_queue, calls,
                   refreshing, tasks, wlog, events, diag, uiSignals, nreads>>
    /\ UNCHANGED codecVars
    /\ UNCHANGED uiVars

\* the dispatch loop's write_gatt_char returns; send_command sleeps 0.1
LoopWriteOk ==
    /\ mainPc = "write"
    /\ is_connected
    /\ mainPc' = "settle"
    /\ UNCHANGED <<loop, running, is_connected, subscribed, command_queue, calls,
                   refreshing, tasks, wlog, events, connEvents, diag, uiSignals, nreads>>
    /\ UNCHANGED codecVars
    /\ UNCHANGED uiVars

\* the write as it stands in the log once the dispatch loop's call has raised
Lost(log) == IF log[1].src = "loop" THEN <<[log[1] EXCEPT !.lost = TRUE]>> ELSE log

\* LoopWriteFail in which send_command puts the command back at the head of
\* the queue to be written again
LoopWriteFail_Retry ==
    /\ mainPc = "write"
    /\ diag' = Bump("send_error")
    /\ mainPc' = MainNext
    /\ connEvents' = ConnAfter(MainNext, connEvents)
    /\ wlog' = Lost(wlog)
    /\ command_queue' = <<[cmd |-> SubSeq(wlog[1].frame, 1, Len(wlog[1].frame) - 2),
                           seq |-> wlog[1].seq, early |-> wlog[1].early,
                           during |-> wlog[1].during]>>
                            \o command_queue
    /\ UNCHANGED <<loop, running, is_connected, subscribed, calls,
                   refreshing, tasks, events, uiSignals, nreads>>
    /\ UNCHANGED codecVars
    /\ UNCHANGED uiVars

\* the dispatch loop's write_gatt_char raises; send_command reports and returns
LoopWriteFail ==
    /\ mainPc = "write"
    /\ diag' = Bump("send_error")
    /\ mainPc' = MainNext
    /\ connEvents' = ConnAfter(MainNext, connEvents)
    /\ wlog' = Lost(wlog)
    /\ UNCHANGED <<loop, running, is_connected, subscribed, command_queue, calls,
                   refreshing, tasks, events, uiSignals, nreads>>
    /\ UNCHANGED codecVars
    /\ UNCHANGED uiVars

\* the dispatch loop's settle sleep ends
LoopSettled ==
    /\ mainPc = "settle"
    /\ mainPc' = MainNext
    /\ connEvents' = ConnAfter(MainNext, connEvents)
    /\ UNCHANGED <<loop, running, is_connected, subscribed, command_queue, calls,
                   refreshing, tasks, wlog, events, diag, uiSignals, nreads>>
    /\ UNCHANGED codecVars
    /\ UNCHANGED uiVars

\* finally: stop_notify returns or raises (the exception is swallowed)
StopNotifyDone ==
    /\ mainPc = "stopnotify"
    /\ subscribed' = FALSE
    /\ mainPc' = "disconnect"
    /\ UNCHANGED <<loop, running, is_connected, command_queue, calls, refreshing, tasks,
                   wlog, events, connEvents, diag, uiSignals, nreads>>
    /\ UNCHANGED codecVars
    /\ UNCHANGED uiVars

\* finally: client.disconnect() returns; run_until_complete returns and the
\* loop stops
DisconnectDone ==
    /\ mainPc = "disconnect"
    /\ is_connected' = FALSE
    /\ connEvents' = Append(connEvents, FALSE)
    /\ mainPc' = "done"
    /\ UNCHANGED <<loop, running, subscribed, command_queue, calls, refreshing, tasks,
                   wlog, events, diag, uiSignals, nreads>>
    /\ UNCHANGED codecVars
    /\ UNCHANGED uiVars

(***************************************************************************)
(* query_device_status: the loop over read_commands                        *)
(***************************************************************************)
\* task t is scheduled: task 0 inside run_ble_client, the others as tasks of
\* the running loop
TaskRuns(t) == IF t = 0 THEN mainPc = "refresh" ELSE LoopAlive

\* the refresh's write_gatt_char returns; send_command sleeps 0.1
RefreshWriteOk(t) ==
    /\ TaskRuns(t)
    /\ tasks[t].pc = "write"
    /\ is_connected
    /\ tasks' = [tasks EXCEPT ![t].pc = "settle"]
    /\ UNCHANGED <<loop, running, is_connected, subscribed, mainPc, command_queue, calls,
                   refreshing, wlog, events, connEvents, diag, uiSignals, nreads>>
    /\ UNCHANGED codecVars
    /\ UNCHANGED uiVars

\* RefreshWriteFail in which the exception of the write ends the refresh
RefreshWriteFail_Abort(t) ==
    /\ TaskRuns(t)
    /\ tasks[t].pc = "write"
    /\ diag' = Bump("send_error")
    /\ tasks' = [tasks EXCEPT ![t].pc = "failed"]
    /\ UNCHANGED <<loop, running, is_connected, subscribed, mainPc, command_queue, calls,
                   refreshing, wlog, events, connEvents, uiSignals, nreads>>
    /\ UNCHANGED codecVars
    /\ UNCHANGED uiVars

\* the refresh's write_gatt_char raises; send_command reports and returns, the
\* loop body emits the progress and sleeps 0.2
RefreshWriteFail(t) ==
    /\ TaskRuns(t)
    /\ tasks[t].pc = "write"
    /\ diag' = Bump("send_error")
    /\ events' = <<Progress(tasks[t].i + 1)>>
    /\ tasks' = [tasks EXCEPT ![t].pc = "sleep"]
    /\ UNCHANGED <<loop, running, is_connected, subscribed, mainPc, command_queue, calls,
                   refreshing, wlog, connEvents, uiSignals, nreads>>
    /\ UNCHANGED codecVars
    /\ UNCHANGED uiVars

\* the settle sleep of the refresh's send_command ends; the loop body emits the
\* progress and sleeps 0.2
RefreshSettled(t) ==
    /\ TaskRuns(t)
    /\ tasks[t].pc = "settle"
    /\ events' = <<Progress(tasks[t].i + 1)>>
    /\ tasks' = [tasks EXCEPT ![t].pc = "sleep"]
    /\ UNCHANGED <<loop, running, is_connected, subscribed, mainPc, command_queue, calls,
                   refreshing, wlog, connEvents, diag, uiSignals, nreads>>
    /\ UNCHANGED codecVars
    /\ UNCHANGED uiVars

\* the 0.2 sleep ends: the next command is sent, or the list is exhausted and
\* the refresh completes (task 0 then enters the dispatch loop)
RefreshSlept(t) ==
    /\ TaskRuns(t)
    /\ tasks[t].pc = "sleep"
    /\ IF tasks[t].i + 1 < total_commands
       THEN /\ RefreshSend(t, tasks[t].i + 1, <<>>)
            /\ UNCHANGED <<refreshing, uiSignals, mainPc, connEvents>>
       ELSE /\ refreshing' = FALSE
            /\ events' = <<[sig |-> "completed"]>>
            /\ uiSignals' = Append(uiSignals, "completed")
            /\ tasks' = [tasks EXCEPT ![t].pc = "done"]
            /\ mainPc' = IF t = 0 THEN MainNext ELSE mainPc
            /\ connEvents' = IF t = 0 THEN ConnAfter(MainNext, connEvents) ELSE connEvents
            /\ UNCHANGED <<wlog, diag>>
    /\ UNCHANGED <<loop, running, is_connected, subscribed, command_queue, calls, nreads>>
    /\ UNCHANGED codecVars
    /\ UNCHANGED uiVars

(***************************************************************************)
(* Callbacks scheduled on the loop from the window's thread                *)
(***************************************************************************)
\* LoopCall whose put places the command at the head of the queue
LoopCall_Front ==
    /\ LoopAlive
    /\ calls # <<>>
    /\ calls' = Tail(calls)
    /\ IF Head(calls).kind = "put"
       THEN /\ command_queue' = <<[cmd |-> Head(calls).cmd, seq |-> Head(calls).seq,
                                   early |-> Head(calls).early,
                                   during |-> Head(calls).during]>> \o command_queue
            /\ UNCHANGED <<refreshing, tasks, wlog, events, diag, uiSignals>>
       ELSE /\ RefreshBegin(Head(calls).task)
            /\ UNCHANGED command_queue
    /\ UNCHANGED <<loop, running, is_connected, subscribed, mainPc, connEvents, nreads>>
    /\ UNCHANGED codecVars
    /\ UNCHANGED uiVars

\* the loop runs the oldest callback of run_coroutine_threadsafe:
\* command_queue.put(command), or query_device_status up to its first await
LoopCall ==
    /\ LoopAlive
    /\ calls # <<>>
    /\ calls' = Tail(calls)
    /\ IF Head(calls).kind = "put"
       THEN /\ command_queue' = Append(command_queue,
                                       [cmd |-> Head(calls).cmd, seq |-> Head(calls).seq,
                                        early |-> Head(calls).early,
                                        during |-> Head(calls).during])
            /\ UNCHANGED <<refreshing, tasks, wlog, events, diag, uiSignals>>
       ELSE /\ RefreshBegin(Head(calls).task)
            /\ UNCHANGED command_queue
    /\ UNCHANGED <<loop, running, is_connected, subscribed, mainPc, connEvents, nreads>>
    /\ UNCHANGED codecVars
    /\ UNCHANGED uiVars

(***************************************************************************)
(* The transport                                                           *)
(***************************************************************************)
\* the link to the device drops
LinkLost ==
    /\ is_connected
    /\ mainPc \notin {"disconnect", "done"}
    /\ is_connected' = FALSE
    /\ UNCHANGED <<loop, running, subscribed, mainPc, command_queue, calls, refreshing,
                   tasks, wlog, events, connEvents, diag, uiSignals, nreads>>
    /\ UNCHANGED codecVars
    /\ UNCHANGED uiVars

\* what one run of notification_handler reports about itself
Handled(data, received, parsed, out, escaped) ==
    [handled |-> TRUE, data |-> data, received |-> received, parsed |-> parsed,
     raised |-> out.raised, status_updated |-> out.status_updated,
     measurement_updated |-> out.measurement_updated, escaped |-> escaped]

\* notification_handler without its try / except: the UnicodeDecodeError of
\* data.decode leaves the handler and reaches the caller
notification_handler_Uncaught(st, md, d, data) ==
    LET message == Strip(data)
        out == parse_status_response(st, md, message)
        none == Outcome(st, md, FALSE, FALSE, FALSE)
    IN  IF ~Decodable(data)
        THEN [status |-> st, measurement_data |-> md, diag |-> d,
              last |-> Handled(data, FALSE, FALSE, none, TRUE)]
        ELSE IF StartsWith(message, <<":", "r">>)
        THEN [status |-> out.status, measurement_data |-> out.measurement_data,
              diag |-> IF out.raised THEN Bump("parse_error") ELSE d,
              last |-> Handled(data, TRUE, TRUE, out, FALSE)]
        ELSE [status |-> st, measurement_data |-> md, diag |-> d,
              last |-> Handled(data, TRUE, FALSE, none, FALSE)]

\* notification_handler that passes every decoded message to
\* parse_status_response, whatever it begins with
notification_handler_AnyPrefix(st, md, d, data) ==
    LET message == Strip(data)
        out == parse_status_response(st, md, message)
        none == Outcome(st, md, FALSE, FALSE, FALSE)
    IN  IF ~Decodable(data)
        THEN [status |-> st, measurement_data |-> md, diag |-> Bump("notification_error"),
              last |-> Handled(data, FALSE, FALSE, none, FALSE)]
        ELSE [status |-> out.status, measurement_data |-> out.measurement_data,
              diag |-> IF out.raised THEN Bump("parse_error") ELSE d,
              last |-> Handled(data, TRUE, TRUE, out, FALSE)]

\* notification_handler(sender, data): the dictionaries, the latest error kind
\* and the report it leaves.  Both try blocks catch Exception, so no exception
\* leaves the handler (escaped is FALSE on every path).
notification_handler(st, md, d, data) ==
    LET message == Strip(data)
        out == parse_status_response(st, md, message)
        none == Outcome(st, md, FALSE, FALSE, FALSE)
    IN  IF ~Decodable(data)
        THEN [status |-> st, measurement_data |-> md, diag |-> Bump("notification_error"),
              last |-> Handled(data, FALSE, FALSE, none, FALSE)]
        ELSE IF StartsWith(message, <<":", "r">>)
        THEN [status |-> out.status, measurement_data |-> out.measurement_data,
              diag |-> IF out.raised THEN Bump("parse_error") ELSE d,
              last |-> Handled(data, TRUE, TRUE, out, FALSE)]
        ELSE [status |-> st, measurement_data |-> md, diag |-> d,
              last |-> Handled(data, TRUE, FALSE, none, FALSE)]

\* notification_handler(sender, data) for the oldest notification in flight
Notification ==
    /\ LoopAlive
    /\ subscribed
    /\ is_connected
    /\ inbox # <<>>
    /\ inbox' = Tail(inbox)
    /\ LET out == notification_handler(status, measurement_data, diag, Head(inbox))
       IN  /\ status' = out.status
           /\ measurement_data' = out.measurement_data
           /\ diag' = out.diag
           /\ lastNotif' = out.last
           /\ uiSignals' = IF out.last.status_updated
                           THEN Append(uiSignals, "status") ELSE uiSignals
    /\ UNCHANGED <<loop, running, is_connected, subscribed, mainPc, command_queue, calls,
                   refreshing, tasks, wlog, events, connEvents, nreads>>
    /\ UNCHANGED uiVars

(***************************************************************************)
(* The window's thread                                                     *)
(***************************************************************************)
\* the window's thread is running its event loop and the controls accept input
UiActive == ~stopped /\ uiEnabled

\* queue_command that rejects the command while the client is not connected
queue_command_Reject(command) ==
    /\ UiActive
    /\ nCmds < MaxCmds
    /\ nCmds' = nCmds + 1
    /\ calls' = IF loop /\ is_connected
                THEN Append(calls, [kind |-> "put", cmd |-> command, seq |-> nCmds + 1,
                                    early |-> ~EverConnected,
                                    during |-> InitialRefreshRuns])
                ELSE calls
    /\ diag' = IF is_connected THEN diag ELSE Bump("not_connected")
    /\ UNCHANGED <<loop, running, is_connected, subscribed, mainPc, command_queue,
                   refreshing, tasks, wlog, events, connEvents, uiSignals, nreads,
                   uiEnabled, stopped, nClicks>>
    /\ UNCHANGED codecVars

\* queue_command(command), called from a handler of an enabled control
queue_command(command) ==
    /\ UiActive
    /\ nCmds < MaxCmds
    /\ nCmds' = nCmds + 1
    /\ calls' = IF loop
                THEN Append(calls, [kind |-> "put", cmd |-> command, seq |-> nCmds + 1,
                                    early |-> ~EverConnected,
                                    during |-> InitialRefreshRuns])
                ELSE calls
    /\ UNCHANGED <<loop, running, is_connected, subscribed, mainPc, command_queue,
                   refreshing, tasks, wlog, events, connEvents, diag, uiSignals, nreads,
                   uiEnabled, stopped, nClicks>>
    /\ UNCHANGED codecVars

\* send_manual_command(): the text of the command line is queued as it is
send_manual_command(command) == queue_command(command) /\ UNCHANGED widgets

\* the values the user gives a control in the encoder specification: for a
\* spin box a number of units of its resolution, within the control's range
EditChoices ==
    [waveform |-> {3}, freq_unit |-> {1},
     frequency |-> {1001, 1000500}, amplitude |-> {1001, 2500},
     offset |-> {-1000, -997, -250, 250, 1000},
     duty |-> {29, 2800}, phase |-> {29, 36000},
     mod_freq |-> {1001, 2000}, am_depth |-> {3, 500}, fm_deviation |-> {3},
     fsk_hopping |-> {3}, pm_phase |-> {3, 900}, pulse_width |-> {1001},
     pulse_period |-> {29, 500},
     mod_type |-> {1, 2}, mod_wave |-> {1}, mod_source |-> {1}, pulse_inversion |-> {1},
     burst_idle |-> {2}, polarity |-> {1}, trigger_source |-> {3}, burst_count |-> {5},
     coupling |-> {1}, gate_time |-> {1000}, freq_range |-> {1},
     sweep_time |-> {2050}, direction |-> {2}, sweep_mode |-> {1}]

\* the user changes a control of the channel's parameter group: valueChanged or
\* currentIndexChanged runs update_parameter(channel, param_type)
EditParameter(channel, name) ==
    \E value \in EditChoices[name] :
        /\ widgets[<<channel, name>>] # value
        /\ widgets' = [widgets EXCEPT ![<<channel, name>>] = value]
        /\ queue_command(update_parameter(widgets', channel,
                                          IF name = "freq_unit" THEN "frequency" ELSE name))

\* the user toggles the channel's enable box: stateChanged runs
\* update_parameter(channel, "output", state)
EditOutput(channel) ==
    /\ widgets' = [widgets EXCEPT ![<<channel, "output">>] = ~widgets[<<channel, "output">>]]
    /\ queue_command(update_parameter(widgets', channel, "output"))

\* the user changes a spin box of the modulation tab
EditModulationValue(channel, name) ==
    \E units \in EditChoices[name] :
        /\ widgets[<<channel, name>>] # units
        /\ widgets' = [widgets EXCEPT ![<<channel, name>>] = units]
        /\ queue_command(update_modulation_value(name, channel, units))

\* the user changes a combo box (or the burst count) of the modulation tab
EditPair(channel, code) ==
    \E value \in EditChoices[PairName[code]] :
        /\ widgets[<<channel, PairName[code]>>] # value
        /\ widgets' = [widgets EXCEPT ![<<channel, PairName[code]>>] = value]
        /\ queue_command(update_pair(widgets', code, channel, value))

\* the user changes a control of the measurement settings: every one of them
\* runs update_measurement_coupling
EditMeasurement(name) ==
    \E value \in EditChoices[name] :
        /\ widgets[<<0, name>>] # value
        /\ widgets' = [widgets EXCEPT ![<<0, name>>] = value]
        /\ queue_command(update_measurement_coupling(widgets'))

\* the user changes the sweep time, direction or type: every one of them runs
\* update_sweep_time
EditSweep(name) ==
    \E value \in EditChoices[name] :
        /\ widgets[<<0, name>>] # value
        /\ widgets' = [widgets EXCEPT ![<<0, name>>] = value]
        /\ queue_command(update_sweep_time(widgets'))

\* refresh_device_status(): a click on the refresh button
refresh_device_status ==
    /\ UiActive
    /\ nClicks < MaxClicks
    /\ nClicks' = nClicks + 1
    /\ calls' = IF loop THEN Append(calls, [kind |-> "refresh", task |-> nClicks + 1])
                ELSE calls
    /\ UNCHANGED <<loop, running, is_connected, subscribed, mainPc, command_queue,
                   refreshing, tasks, wlog, events, connEvents, diag, uiSignals, nreads,
                   uiEnabled, stopped, nCmds, widgets>>
    /\ UNCHANGED codecVars

\* the parameters apply_all_settings goes through, the output state last
ApplyOrder == <<"waveform", "frequency", "amplitude", "offset", "duty", "phase", "output">>

\* the number of commands one click on 'apply all' queues
ApplyCount == Len(ApplyOrder)

\* queue_command for each of cmds in turn, the first of them numbered n + 1
QueueAll(cmds, n) ==
    [i \in 1..Len(cmds) |->
        [kind |-> "put", cmd |-> cmds[i], seq |-> n + i, early |-> ~EverConnected,
         during |-> InitialRefreshRuns]]

\* apply_all_settings in which the output state is written first
apply_all_settings_OutputFirst(channel) ==
    /\ UiActive
    /\ nCmds < MaxCmds
    /\ nCmds' = nCmds + ApplyCount
    /\ calls' = IF loop
                THEN calls \o QueueAll(<<update_parameter(widgets, channel, "output")>>
                                          \o [i \in 1..(ApplyCount - 1) |->
                                                 update_parameter(widgets, channel,
                                                                  ApplyOrder[i])],
                                      nCmds)
                ELSE calls
    /\ UNCHANGED <<loop, running, is_connected, subscribed, mainPc, command_queue,
                   refreshing, tasks, wlog, events, connEvents, diag, uiSignals, nreads,
                   uiEnabled, stopped, nClicks, widgets>>
    /\ UNCHANGED codecVars

\* apply_all_settings(channel): a click on the channel's 'apply all' button
\* runs update_parameter for each parameter in turn
apply_all_settings(channel) ==
    /\ UiActive
    /\ nCmds < MaxCmds
    /\ nCmds' = nCmds + ApplyCount
    /\ calls' = IF loop
                THEN calls \o QueueAll([i \in 1..ApplyCount |->
                                           update_parameter(widgets, channel, ApplyOrder[i])],
                                      nCmds)
                ELSE calls
    /\ UNCHANGED <<loop, running, is_connected, subscribed, mainPc, command_queue,
                   refreshing, tasks, wlog, events, connEvents, diag, uiSignals, nreads,
                   uiEnabled, stopped, nClicks, widgets>>
    /\ UNCHANGED codecVars

\* the range of each spin box, in units of its resolution (setRange, setDecimals)
WidgetRange ==
    [frequency |-> <<0, 1000000000>>, amplitude |-> <<0, 20000>>, offset |-> <<-1000, 1000>>,
     duty |-> <<0, 10000>>, phase |-> <<0, 36000>>, mod_freq |-> <<0, 100000000>>,
     am_depth |-> <<0, 1000>>, fm_deviation |-> <<0, 1000000>>, pm_phase |-> <<0, 3599>>,
     fsk_hopping |-> <<0, 1000000>>, pulse_width |-> <<0, 400000>>,
     pulse_period |-> <<0, 400000>>, burst_count |-> <<1, 1000000>>]

\* QDoubleSpinBox.setValue / QSpinBox.setValue: the value in units of the box's
\* resolution, to the nearest unit and within the box's range
SetValue(name, v) ==
    LET scale == IF name = "burst_count" THEN 1 ELSE Scale[name]
        units == IF v.num >= 0
                 THEN (2 * v.num * scale + v.den) \div (2 * v.den)
                 ELSE -((2 * (-v.num) * scale + v.den) \div (2 * v.den))
    IN  IF units < WidgetRange[name][1] THEN WidgetRange[name][1]
        ELSE IF units > WidgetRange[name][2] THEN WidgetRange[name][2]
        ELSE units

\* the controls update_ui_from_status sets for one channel, in its order
ChannelSlots ==
    <<"waveform", "frequency", "freq_unit", "amplitude", "offset", "duty", "phase",
      "mod_type", "mod_source", "mod_wave", "mod_freq", "am_depth", "fm_deviation",
      "pm_phase", "fsk_hopping", "pulse_width", "pulse_period", "pulse_inversion",
      "burst_idle", "polarity", "trigger_source", "burst_count">>

\* every control update_ui_from_status sets: the two enable boxes, then the
\* controls of channel 1, then those of channel 2
StatusSlots ==
    <<<<1, "output">>, <<2, "output">>>>
        \o [i \in 1..Len(ChannelSlots) |-> <<1, ChannelSlots[i]>>]
        \o [i \in 1..Len(ChannelSlots) |-> <<2, ChannelSlots[i]>>]

\* the condition under which update_ui_from_status sets the control of key;
\* a waveform is shown when WAVEFORMS names it
SlotPresent(st, key) ==
    IF key[2] \in {"frequency", "freq_unit"}
    THEN <<key[1], "frequency">> \in DOMAIN st /\ <<key[1], "freq_unit">> \in DOMAIN st
    ELSE IF key[2] = "waveform"
    THEN key \in DOMAIN st /\ st[key].den = 1 /\ st[key].num \in 0..21
    ELSE key \in DOMAIN st

\* what setChecked, setCurrentIndex or setValue leaves in the control of key,
\* for an index the combo box has
SlotValue(st, key) ==
    IF key[2] = "output" THEN st[key]
    ELSE IF key[2] \in ComboNames \ {"burst_count"} THEN st[key].num
    ELSE SetValue(key[2], st[key])

\* the handler connected to the change signal of the control of key
\* (stateChanged, currentIndexChanged, valueChanged), run with the controls w
ChangeHandler(w, key) ==
    IF key[2] \in DOMAIN ModulationBase
    THEN update_modulation_value(key[2], key[1], w[key])
    ELSE IF \E code \in DOMAIN PairName : PairName[code] = key[2]
    THEN update_pair(w, CHOOSE code \in DOMAIN PairName : PairName[code] = key[2],
                     key[1], w[key])
    ELSE update_parameter(w, key[1], IF key[2] = "freq_unit" THEN "frequency" ELSE key[2])

\* update_ui_from_status sets the control of key to another value than it has
Changes(st, w, key) == SlotPresent(st, key) /\ SlotValue(st, key) # w[key]

\* the controls once update_ui_from_status has gone through its first i
\* controls: each control is set once
ControlsAfter(st, w, i) ==
    [key \in DOMAIN w |->
        IF \E j \in 1..i : StatusSlots[j] = key /\ Changes(st, w, key)
        THEN SlotValue(st, key) ELSE w[key]]

\* the body of update_ui_from_status: a control whose value changes emits its
\* change signal, and the handler connected to it builds a frame from the
\* controls as they are at that moment
SetControls(st, w) ==
    LET changed == SelectSeq([i \in 1..Len(StatusSlots) |-> i],
                             LAMBDA i : Changes(st, w, StatusSlots[i]))
    IN  [widgets |-> ControlsAfter(st, w, Len(StatusSlots)),
         cmds |-> [n \in 1..Len(changed) |->
                      ChangeHandler(ControlsAfter(st, w, changed[n]),
                                    StatusSlots[changed[n]])]]

\* update_ui_from_status(status): the window's thread handles the oldest queued
\* signal, a status_updated; the dictionary it is given is the worker's own
update_ui_from_status ==
    /\ ~stopped
    /\ uiSignals # <<>>
    /\ Head(uiSignals) = "status"
    /\ uiSignals' = Tail(uiSignals)
    /\ LET out == SetControls(status, widgets)
       IN  /\ widgets' = out.widgets
           /\ nCmds' = nCmds + Len(out.cmds)
           /\ calls' = IF loop THEN calls \o QueueAll(out.cmds, nCmds) ELSE calls
    /\ UNCHANGED <<loop, running, is_connected, subscribed, mainPc, command_queue,
                   refreshing, tasks, wlog, events, connEvents, diag, nreads,
                   uiEnabled, stopped, nClicks>>
    /\ UNCHANGED codecVars

\* on_refresh_started / on_refresh_completed: the window's thread handles the
\* oldest queued signal, a refresh_started or a refresh_completed
RefreshSlot ==
    /\ ~stopped
    /\ uiSignals # <<>>
    /\ Head(uiSignals) # "status"
    /\ uiSignals' = Tail(uiSignals)
    /\ uiEnabled' = (Head(uiSignals) = "completed")
    /\ UNCHANGED <<loop, running, is_connected, subscribed, mainPc, command_queue, calls,
                   refreshing, tasks, wlog, events, connEvents, diag, nreads,
                   stopped, nCmds, nClicks, widgets>>
    /\ UNCHANGED codecVars

\* closeEvent: stop() clears running and waits for the worker's thread
stop ==
    /\ ~stopped
    /\ stopped' = TRUE
    /\ running' = FALSE
    /\ UNCHANGED <<loop, is_connected, subscribed, mainPc, command_queue, calls,
                   refreshing, tasks, wlog, events, connEvents, diag, uiSignals, nreads,
                   uiEnabled, nCmds, nClicks, widgets>>
    /\ UNCHANGED codecVars

(***************************************************************************)
(* Specifications                                                          *)
(***************************************************************************)
Next ==
    \/ Run
    \/ ConnectOk
    \/ ConnectFail
    \/ StartNotifyOk
    \/ StartNotifyFail
    \/ LoopGet
    \/ LoopTimeout
    \/ LoopWriteOk
    \/ LoopWriteFail
    \/ LoopSettled
    \/ StopNotifyDone
    \/ DisconnectDone
    \/ \E t \in TaskIds : RefreshWriteOk(t)
    \/ \E t \in TaskIds : RefreshWriteFail(t)
    \/ \E t \in TaskIds : RefreshSettled(t)
    \/ \E t \in TaskIds : RefreshSlept(t)
    \/ LoopCall
    \/ LinkLost
    \/ \E command \in UICommands : send_manual_command(command)
    \/ refresh_device_status
    \/ RefreshSlot
    \/ stop

\* every interleaving of the worker's coroutines, the transport and the window
Spec == Init /\ [][Next]_vars

\* the refresh alone: no command is ever queued, so the dispatch loop only
\* polls its empty queue
NextRefresh ==
    \/ Run
    \/ ConnectOk
    \/ ConnectFail
    \/ StartNotifyOk
    \/ StartNotifyFail
    \/ LoopTimeout
    \/ StopNotifyDone
    \/ DisconnectDone
    \/ \E t \in TaskIds : RefreshWriteOk(t)
    \/ \E t \in TaskIds : RefreshWriteFail(t)
    \/ \E t \in TaskIds : RefreshSettled(t)
    \/ \E t \in TaskIds : RefreshSlept(t)
    \/ LoopCall
    \/ LinkLost
    \/ refresh_device_status
    \/ RefreshSlot
    \/ stop

SpecRefresh == Init /\ [][NextRefresh]_vars

\* one step of refresh task t
RefreshStep(t) ==
    RefreshWriteOk(t) \/ RefreshWriteFail(t) \/ RefreshSettled(t) \/ RefreshSlept(t)

\* the dispatch path alone: the refresh button is never clicked, the only
\* refresh is the one run_ble_client awaits after connecting
NextDispatch ==
    \/ Run
    \/ ConnectOk
    \/ ConnectFail
    \/ StartNotifyOk
    \/ StartNotifyFail
    \/ LoopGet
    \/ LoopTimeout
    \/ LoopWriteOk
    \/ LoopWriteFail
    \/ LoopSettled
    \/ StopNotifyDone
    \/ DisconnectDone
    \/ \E t \in TaskIds : RefreshWriteOk(t)
    \/ \E t \in TaskIds : RefreshWriteFail(t)
    \/ \E t \in TaskIds : RefreshSettled(t)
    \/ \E t \in TaskIds : RefreshSlept(t)
    \/ LoopCall
    \/ LinkLost
    \/ \E command \in UICommands : send_manual_command(command)
    \/ RefreshSlot
    \/ stop

SpecDispatch == Init /\ [][NextDispatch]_vars

\* the worker's thread runs: the event loop resumes every coroutine that can
\* go on and runs every scheduled callback, and every awaited call of the
\* transport returns or raises.  Nothing is assumed of the user or of the link.
WorkerFairness ==
    /\ WF_vars(Run)
    /\ WF_vars(ConnectOk \/ ConnectFail)
    /\ WF_vars(StartNotifyOk \/ StartNotifyFail)
    /\ WF_vars(LoopGet)
    /\ WF_vars(LoopTimeout)
    /\ WF_vars(LoopWriteOk \/ LoopWriteFail)
    /\ WF_vars(LoopSettled)
    /\ WF_vars(StopNotifyDone)
    /\ WF_vars(DisconnectDone)
    /\ WF_vars(LoopCall)
    /\ \A t \in TaskIds : WF_vars(RefreshStep(t))

\* the dispatch path under fair scheduling of the worker
SpecFair == Init /\ [][NextDispatch]_vars /\ WorkerFairness

\* the dispatch path on a link that stays up, fed by the 'apply all' buttons,
\* the enable boxes and the waveform boxes
NextApply ==
    \/ Run
    \/ ConnectOk
    \/ StartNotifyOk
    \/ LoopGet
    \/ LoopTimeout
    \/ LoopWriteOk
    \/ LoopWriteFail
    \/ LoopSettled
    \/ RefreshWriteOk(0)
    \/ RefreshSettled(0)
    \/ RefreshSlept(0)
    \/ LoopCall
    \/ \E channel \in {1, 2} : apply_all_settings(channel)
    \/ \E channel \in {1, 2} : EditOutput(channel)
    \/ \E channel \in {1, 2} : EditParameter(channel, "waveform")
    \/ RefreshSlot

SpecApply == Init /\ [][NextApply]_vars

\* one connection whose initial refresh walks the whole of read_commands
InitFull ==
    /\ InitCommon
    /\ inbox = <<>>
    /\ nreads = Len(read_commands)

NextFull ==
    \/ Run
    \/ ConnectOk
    \/ StartNotifyOk
    \/ \E t \in TaskIds : RefreshWriteOk(t)
    \/ \E t \in TaskIds : RefreshWriteFail(t)
    \/ \E t \in TaskIds : RefreshSettled(t)
    \/ \E t \in TaskIds : RefreshSlept(t)
    \/ LinkLost

SpecFull == InitFull /\ [][NextFull]_vars

\* the notification path: the device's notifications are delivered while the
\* worker is connected and subscribed
InitCodec ==
    /\ InitCommon
    /\ inbox \in SeqsUpTo(InboundFrames, MaxFrames)
    /\ nreads = MaxReads

NextCodec ==
    \/ Run
    \/ ConnectOk
    \/ StartNotifyOk
    \/ Notification

SpecCodec == InitCodec /\ [][NextCodec]_vars

\* the window's controls: the worker starts and the user changes controls
NextEncode ==
    \/ Run
    \/ \E channel \in {1, 2} :
          \E name \in {"waveform", "frequency", "freq_unit", "amplitude", "offset",
                       "duty", "phase"} : EditParameter(channel, name)
    \/ \E channel \in {1, 2} : EditOutput(channel)
    \/ \E channel \in {1, 2} : \E name \in DOMAIN ModulationBase :
          EditModulationValue(channel, name)
    \/ \E channel \in {1, 2} : \E code \in DOMAIN PairName : EditPair(channel, code)

SpecEncode == Init /\ [][NextEncode]_vars

\* every source of commands on a link that stays up: the initial refresh, the
\* command line, the enable boxes, the measurement and the sweep settings
NextSources ==
    \/ Run
    \/ ConnectOk
    \/ StartNotifyOk
    \/ LoopGet
    \/ LoopTimeout
    \/ LoopWriteOk
    \/ LoopSettled
    \/ RefreshWriteOk(0)
    \/ RefreshSettled(0)
    \/ RefreshSlept(0)
    \/ LoopCall
    \/ RefreshSlot
    \/ \E command \in TypedTexts : send_manual_command(command)
    \/ \E channel \in {1, 2} : EditOutput(channel)
    \/ \E name \in MeasurementNames : EditMeasurement(name)
    \/ \E name \in SweepNames \ {"sweep_channel"} : EditSweep(name)

SpecSources == Init /\ [][NextSources]_vars

\* the dispatch path on a link that stays up, given commands that may carry
\* their terminator already
NextWire ==
    \/ Run
    \/ ConnectOk
    \/ StartNotifyOk
    \/ LoopGet
    \/ LoopTimeout
    \/ LoopWriteOk
    \/ LoopSettled
    \/ RefreshWriteOk(0)
    \/ RefreshSettled(0)
    \/ RefreshSlept(0)
    \/ LoopCall
    \/ RefreshSlot
    \/ \E command \in TerminatedTexts : send_manual_command(command)

SpecWire == Init /\ [][NextWire]_vars

\* the controls with a scaled value and the enable boxes
NextScaled ==
    \/ Run
    \/ \E channel \in {1, 2} :
          \E name \in {"frequency", "freq_unit", "amplitude", "duty", "phase"} :
              EditParameter(channel, name)
    \/ \E channel \in {1, 2} : EditOutput(channel)
    \/ \E channel \in {1, 2} : \E name \in DOMAIN ModulationBase \ {"mod_freq"} :
          EditModulationValue(channel, name)

SpecScaled == Init /\ [][NextScaled]_vars

\* the decoder alone on well-formed read responses
InitDecode ==
    /\ InitCommon
    /\ inbox \in SeqsUpTo(ReadResponses, MaxFrames)
    /\ nreads = MaxReads

SpecDecode == InitDecode /\ [][NextCodec]_vars

\* the decoder on measurement readings mixed with other responses
InitMeasure ==
    /\ InitCommon
    /\ inbox \in SeqsUpTo(MeasurementResponses, MaxFrames)
    /\ nreads = MaxReads

SpecMeasure == InitMeasure /\ [][NextCodec]_vars

\* the decoder together with the window's thread, which shows what was decoded
NextMirror ==
    \/ Run
    \/ ConnectOk
    \/ StartNotifyOk
    \/ Notification
    \/ RefreshSlot
    \/ update_ui_from_status
    \/ LoopCall

SpecMirror == InitDecode /\ [][NextMirror]_vars

(***************************************************************************)
(* Serialisation of writes (C1, C2, C3)                                    *)
(***************************************************************************)
\* this step calls write_gatt_char: the dispatch loop or a refresh task moves
\* to its await of the write
WritesNow ==
    \/ mainPc = "get" /\ mainPc' = "write"
    \/ \E t \in TaskIds : tasks'[t] # tasks[t] /\ tasks'[t].pc = "write"

\* C1: the dispatcher writes queued commands in their enqueue order with nothing
\* in between: when a queued command was written while another accepted command
\* was still pending, the very next write on the transport is that next command.
C1_FifoNoInterleave ==
    [][(WritesNow /\ wlog # <<>> /\ wlog[1].src = "loop" /\ wlog[1].pending > 0)
          => (wlog'[1].src = "loop" /\ wlog'[1].seq = wlog[1].seq + 1)]_vars

\* callers of send_command that are between the start of their write and the
\* end of their settle wait
InFlight ==
    (IF mainPc \in {"write", "settle"} THEN 1 ELSE 0)
        + Cardinality({t \in TaskIds : tasks[t].pc \in {"write", "settle"}})

\* C2: at most one transport write is outstanding in every reachable state.
C2_SingleFlight == InFlight <= 1

\* C3: every frame passed to write_gatt_char was taken from the command queue
\* by the dispatch loop.
C3_OnlyDispatcherWrites == \A k \in DOMAIN wlog : wlog[k].src = "loop"

(***************************************************************************)
(* The refresh sequence (C4, C5, C6, C7, C9)                               *)
(***************************************************************************)
\* refresh task t is between refresh_started and refresh_completed
Running(t) == tasks[t].pc \in {"write", "settle", "sleep"}

\* C4: at most one refresh sequence is Running at any time (a start requested
\* while one runs is rejected).
C4_OneRefreshRunning == Cardinality({t \in TaskIds : Running(t)}) <= 1

\* signal b may follow signal a in the sequence of one refresh after another
ValidSuccession(a, b) ==
    CASE a.sig = "started" -> b.sig = "progress" /\ b.i = 1
      [] a.sig = "progress" ->
            IF a.i < a.total
            THEN b.sig = "progress" /\ b.i = a.i + 1 /\ b.total = a.total
            ELSE b.sig = "completed"
      [] a.sig = "completed" -> b.sig = "started"

\* this step emits refresh signals: a refresh task starts, or moves to its 0.2
\* sleep (progress) or to its end (completed)
EmitsNow ==
    \E t \in TaskIds :
        /\ tasks'[t] # tasks[t]
        /\ tasks[t].pc = "idle" \/ tasks'[t].pc \in {"sleep", "done"}

\* C5: the refresh signals come as started, progress(1,total), ...,
\* progress(total,total), completed: every signal is followed by its successor.
C5_ProgressSequence ==
    [][EmitsNow
          => /\ events # <<>> => ValidSuccession(events[Len(events)], events'[1])
             /\ \A k \in 1..(Len(events') - 1) :
                   ValidSuccession(events'[k], events'[k + 1])]_vars

\* the codes of the read-command list, as the specification enumerates them
ExpectedCodes ==
    <<10, 11, 12, 13, 14, 15, 16, 17, 18, 19, 20, 21, 22,
      40, 41, 42, 43, 44, 45, 46, 47, 48, 49, 50, 51, 52, 53, 54, 55, 56,
      57, 58, 59, 60, 61,
      80, 81, 82, 83, 84, 85, 86,
      62, 63>>

\* ':r<code>=0.' followed by CRLF, as it must appear on the wire
ExpectedWire(k) ==
    <<":", "r", Digit[(ExpectedCodes[k] \div 10) + 1], Digit[(ExpectedCodes[k] % 10) + 1],
      "=", "0", ".", "\r", "\n">>

\* C6: a refresh walks 44 read commands, and the k-th command it submits is
\* ':r<code>=0.' for the k-th code of the list 10, 11..22, 40..56, 57..61,
\* 80..86, 62, 63.
C6_ReadList ==
    /\ Len(ExpectedCodes) = 44
    /\ total_commands = 44
    /\ \A t \in TaskIds :
          tasks[t].pc \in {"write", "settle"}
              => wlog[1].frame = ExpectedWire(tasks[t].i + 1)
    /\ \A k \in DOMAIN events : events[k].sig = "progress" => events[k].total = 44

\* C6 witness: the 44th command, ':r63=0.', is being written
C6_Witness ==
    /\ tasks[0].pc = "write"
    /\ tasks[0].i = 43
    /\ wlog[Len(wlog)].frame = <<":", "r", "6", "3", "=", "0", ".", "\r", "\n">>

\* how far refresh task t has come: four awaits per command
Measure(tk) ==
    CASE tk.pc = "idle" -> 0
      [] tk.pc = "write" -> 4 * tk.i + 1
      [] tk.pc = "settle" -> 4 * tk.i + 2
      [] tk.pc = "sleep" -> 4 * tk.i + 3
      [] tk.pc = "done" -> 4 * total_commands
      [] OTHER -> 0 - 1

\* C7 as stated: every started refresh returns to Idle and emits completed; so
\* when run_ble_client has returned and the loop has stopped, no refresh is
\* still Running.
C7_AlwaysCompletes == mainPc = "done" => \A t \in TaskIds : ~Running(t)

\* C7 amended: a started refresh has no failed outcome.  Whatever its writes
\* do, it stays Running until it completes, every step takes it further along
\* the list, it completes only after the last command, and while the loop runs
\* its next step is always possible (so a fair loop brings it to completed);
\* the refresh awaited by run_ble_client is never left Running when the loop
\* stops, only one started from the window can be.
C7_NeverFails ==
    [][\A t \in TaskIds :
          /\ Running(t) => (tasks'[t].pc \in {"write", "settle", "sleep", "done"})
          /\ tasks'[t] # tasks[t] => Measure(tasks'[t]) > Measure(tasks[t])
          /\ (Running(t) /\ tasks'[t].pc = "done") => tasks[t].i = total_commands - 1
          /\ (Running(t) /\ TaskRuns(t)) => ENABLED RefreshStep(t)
          /\ mainPc' = "done" => tasks'[0].pc \in {"idle", "done"}]_vars

\* C7 witness: a refresh has completed although its last write failed
C7_Witness ==
    \E t \in TaskIds : tasks[t].pc = "done" /\ diag = "send_error" /\ ~refreshing

\* the index of the command task t submits in this step, when it submits one
\* as the next iteration of a loop that was already running
SubmitsNext(t) ==
    /\ tasks[t].pc = "sleep"
    /\ tasks'[t].pc \in {"write", "sleep"}
    /\ tasks'[t].i = tasks[t].i + 1

\* the session was connected and the link is gone
Disconnected == EverConnected /\ ~is_connected

Entries(q) == {q[k] : k \in DOMAIN q}

HandledNoEquals ==
    /\ lastNotif.handled
    /\ Decodable(lastNotif.data)
    /\ ~Contains(lastNotif.data, "=")

Delivers == inbox # <<>> /\ inbox' = Tail(inbox)

\* data is text that notification_handler passes to parse_status_response and
\* that has a code part and a value part
ReadResponse(data) ==
    /\ Decodable(data)
    /\ StartsWith(Strip(data), <<":", "r">>)
    /\ Contains(Strip(data), "=")

\* the characters between ':r' and '=', and the comma-separated fields after '='
CodeOf(data) == DropFirst(Strip(SplitOnce(Strip(data), "=")[1]), 2)
ValueOf(data) == SplitOnce(Strip(data), "=")[2]
FieldsOf(data) == Split(ValueOf(data), ",")

\* a field is numeric when it is an integer once the frame's '.' is dropped
Numeric(field) == IsInt(StripChars(field, DotCrLf))

\* the frame carries the two-digit code c
HasCode(data, c) == ReadResponse(data) /\ Len(CodeOf(data)) = 2 /\ CodeOf(data) = Str(c)

\* the codes of the decode table, and those among them that carry two fields
TableCodes == (10..22) \cup (40..63) \cup (80..86)
TwoFieldCodes == {10, 13, 14, 40, 41, 42, 57, 58, 59, 60, 61}

\* a frame of a table code in which some field is not numeric
NonNumericFrame(data) ==
    /\ \E c \in TableCodes : HasCode(data, c)
    /\ \E k \in DOMAIN FieldsOf(data) : ~Numeric(FieldsOf(data)[k])

\* a frame whose two-digit code is not in the decode table
UnknownCodeFrame(data) ==
    /\ ReadResponse(data)
    /\ Len(CodeOf(data)) = 2
    /\ IsInt(CodeOf(data))
    /\ \A c \in TableCodes : ~HasCode(data, c)

\* a frame of a two-field code that carries one field
ShortPairFrame(data) ==
    /\ \E c \in TwoFieldCodes : HasCode(data, c)
    /\ Len(FieldsOf(data)) = 1

\* C11: an inbound frame in which a field is not numeric leaves the device
\* state unchanged, also for the two-field codes when the first field is
\* numeric and the second is not.
C11_NonNumericNoChange ==
    [][(Delivers /\ NonNumericFrame(Head(inbox)))
          => (status' = status /\ measurement_data' = measurement_data)]_vars

\* C12: an inbound frame with a code outside the decode table yields a
\* parse-error diagnostic only: no state field changes, and neither the
\* state-changed nor the measurement-updated signal is emitted.
C12_UnknownCodeDiagnosticOnly ==
    [][(Delivers /\ UnknownCodeFrame(Head(inbox)))
          => /\ lastNotif'.raised
             /\ diag' = "parse_error"
             /\ status' = status /\ measurement_data' = measurement_data
             /\ ~lastNotif'.status_updated
             /\ ~lastNotif'.measurement_updated]_vars

\* C13: an inbound frame of a two-field code that carries only one field yields
\* a parse-error diagnostic, changes no state field and emits no state-changed
\* signal.
C13_ShortPairRejected ==
    [][(Delivers /\ ShortPairFrame(Head(inbox)))
          => /\ lastNotif'.raised
             /\ diag' = "parse_error"
             /\ status' = status /\ measurement_data' = measurement_data
             /\ ~lastNotif'.status_updated]_vars

\* a frame the decoder cannot turn into a state update
Malformed(data) ==
    \/ ~Decodable(data)
    \/ Decodable(data) /\ StartsWith(Strip(data), <<":", "r">>) /\ ~Contains(Strip(data), "=")
    \/ NonNumericFrame(data)
    \/ UnknownCodeFrame(data)
    \/ ShortPairFrame(data)

\* the handler emitted an error text for the frame it handled
Reported(last) == last.raised \/ ~last.received

SingleCodes == {11, 12} \cup (15..22) \cup (43..56) \cup (80..86)
ConvertedPairCodes == {13, 14, 40, 41, 42, 57, 58, 59}

\* a conversion of the frame's branch raises
ConversionFails(data) ==
    \/ (\E c \in SingleCodes : HasCode(data, c)) /\ ~Numeric(ValueOf(data))
    \/ /\ \E c \in ConvertedPairCodes : HasCode(data, c)
       /\ Len(FieldsOf(data)) >= 2
       /\ ~IsInt(Strip(FieldsOf(data)[1])) \/ ~Numeric(FieldsOf(data)[2])

\* a well-formed frame: waveform 3 for channel 1
WaveformFrame == <<":", "r", "1", "1", "=", "3", ".", "\r", "\n">>

WireValue(data) == ToInt(StripChars(FieldsOf(data)[1], DotCrLf))

\* two status values are the same number
SameValue(a, b) == a.num * b.den = b.num * a.den

\* st2 is st with exactly the fields keys (re)written
UpdatesExactly(st, st2, keys) ==
    /\ DOMAIN st2 = DOMAIN st \cup keys
    /\ \A k \in DOMAIN st \ keys : st2[k] = st[k]

\* the table of the single-channel codes 11..22: code -> (channel, kind, scale)
ReadTable ==
    [c \in 11..22 |->
        CASE c \in {11, 12} -> <<c - 10, "waveform", 1>>
          [] c \in {13, 14} -> <<c - 12, "frequency", 1000>>
          [] c \in {15, 16} -> <<c - 14, "amplitude", 1000>>
          [] c \in {17, 18} -> <<c - 16, "offset", 100>>
          [] c \in {19, 20} -> <<c - 18, "duty", 100>>
          [] c \in {21, 22} -> <<c - 20, "phase", 100>>]

\* the value the table gives a frame of code c with first field w
TableValue(c, w) == IF c \in {17, 18} THEN Val(w - 1000, 100) ELSE Val(w, ReadTable[c][3])

\* C15: for every code c in 11..22 a well-formed read response with code c
\* updates exactly the field of the table's (kind, channel) - and the unit next
\* to the frequency - with the wire value over the table's scale; code 20 is
\* channel 2's duty.
C15_TableUpdate ==
    [][\A c \in 11..22 :
          (Delivers /\ HasCode(Head(inbox), c) /\ ~NonNumericFrame(Head(inbox)))
              => LET key == <<ReadTable[c][1], ReadTable[c][2]>>
                     keys == IF c \in {13, 14}
                             THEN {key, <<ReadTable[c][1], "freq_unit">>}
                             ELSE {key}
                 IN  /\ UpdatesExactly(status, status', keys)
                     /\ SameValue(status'[key], TableValue(c, WireValue(Head(inbox))))]_vars

\* C16: ':r10=a,b.' with a, b in {0, 1} sets channel 1's output flag to (a = 1)
\* and channel 2's output flag to (b = 1).
C16_OutputFlags ==
    [][(Delivers /\ HasCode(Head(inbox), 10) /\ Len(FieldsOf(Head(inbox))) = 2
          /\ ~NonNumericFrame(Head(inbox)))
          => /\ UpdatesExactly(status, status', {<<1, "output">>, <<2, "output">>})
             /\ status'[<<1, "output">>] = (WireValue(Head(inbox)) = 1)
             /\ status'[<<2, "output">>]
                    = (ToInt(StripChars(FieldsOf(Head(inbox))[2], DotCrLf)) = 1)]_vars

\* some numeric field of the dictionary d holds the number w
Stores(d, w) ==
    \E k \in DOMAIN d : d[k] \notin BOOLEAN /\ SameValue(d[k], Val(w, 1))

\* C17: a read response with code 62 or 63 is decoded and its value is stored
\* in the device state.
C17_MeasurementConfigStored ==
    [][\A c \in {62, 63} :
          (Delivers /\ HasCode(Head(inbox), c) /\ ~NonNumericFrame(Head(inbox)))
              => \/ Stores(status', WireValue(Head(inbox)))
                 \/ Stores(measurement_data', WireValue(Head(inbox)))]_vars


(***************************************************************************)
(* Encoding against decoding (C18 - C20)                                   *)
(***************************************************************************)
\* this step queues a command
Queues == loop /\ Len(calls') = Len(calls) + 1

\* the read-response form of a write frame, as the device sends it
ReadForm(command) == <<":", "r">> \o DropFirst(command, 2) \o CRLF

\* the status dictionary after the handler is given the read-response form of
\* the command queued in this step
DecodedBack ==
    notification_handler(status, measurement_data, diag,
                         ReadForm(calls'[Len(calls')].cmd)).status

\* the single-channel parameters, and the number a control shows
SingleNames ==
    {"waveform", "freq_unit", "frequency", "amplitude", "offset", "duty", "phase"}
        \cup DOMAIN ModulationBase
Shown(w, key) == Val(w[key], IF key[2] \in SpinNames THEN Scale[key[2]] ELSE 1)

\* C18: for every single-channel parameter, channel and value that is a
\* multiple of the resolution, decoding the read-response form of the frame the
\* encoder builds stores that value in the same parameter and channel.
C18_RoundTrip ==
    [][\A key \in {1, 2} \X SingleNames :
          (Queues /\ widgets'[key] # widgets[key])
              => /\ key \in DOMAIN DecodedBack
                 /\ SameValue(DecodedBack[key], Shown(widgets', key))]_vars

\* C19: for every dual-channel code, whichever channel is changed, the write
\* frame's first field is channel 1's value and its second field channel 2's,
\* so that decoding the pair gives each channel its own value.
C19_PairOrder ==
    [][\A code \in DOMAIN PairName : \A channel \in {1, 2} :
          (Queues /\ widgets'[<<channel, PairName[code]>>] # widgets[<<channel, PairName[code]>>])
              => LET frame == ReadForm(calls'[Len(calls')].cmd)
                     name == PairName[code]
                 IN  /\ Len(FieldsOf(frame)) = 2
                     /\ WireValue(frame) = widgets'[<<1, name>>]
                     /\ ToInt(StripChars(FieldsOf(frame)[2], DotCrLf)) = widgets'[<<2, name>>]
                     /\ <<1, name>> \in DOMAIN DecodedBack
                     /\ <<2, name>> \in DOMAIN DecodedBack
                     /\ DecodedBack[<<1, name>>] = Val(widgets'[<<1, name>>], 1)
                     /\ DecodedBack[<<2, name>>] = Val(widgets'[<<2, name>>], 1)]_vars

\* C20: an offset of h hundredths of a volt, h in -1000..1000, is written as
\* the wire value 1000 + h, which is never negative, and the wire value w is
\* decoded as (w - 1000) hundredths of a volt.
C20_OffsetEncoding ==
    [][\A channel \in {1, 2} :
          (Queues /\ widgets'[<<channel, "offset">>] # widgets[<<channel, "offset">>])
              => LET frame == ReadForm(calls'[Len(calls')].cmd)
                     h == widgets'[<<channel, "offset">>]
                 IN  /\ HasCode(frame, 16 + channel)
                     /\ WireValue(frame) = 1000 + h
                     /\ WireValue(frame) >= 0
                     /\ <<channel, "offset">> \in DOMAIN DecodedBack
                     /\ SameValue(DecodedBack[<<channel, "offset">>],
                                  Val(WireValue(frame) - 1000, 100))]_vars

(***************************************************************************)
(* Scaling and validation in the encoders (C21, C22)                       *)
(***************************************************************************)
\* the scaled parameters of the table: name -> (code before channel 1's, scale)
ScaledTable ==
    [frequency |-> <<12, 1000>>, amplitude |-> <<14, 1000>>, duty |-> <<18, 100>>,
     phase |-> <<20, 100>>, am_depth |-> <<44, 10>>, fm_deviation |-> <<46, 10>>,
     fsk_hopping |-> <<48, 10>>, pm_phase |-> <<50, 10>>, pulse_width |-> <<52, 1000>>,
     pulse_period |-> <<54, 100>>]

\* the integer part of the float product value * scale, value the double of
\* units / scale: the product is units + R * 2^-s with |R * 2^-s| < 1
Truncation(units, scale) ==
    IF units = 0 THEN 0
    ELSE IF ProductError(units, scale) < 0 THEN units - 1 ELSE units

\* the command queued in this step, in the form the decoder reads
QueuedFrame == ReadForm(calls'[Len(calls')].cmd)

\* C21: the integer an encoder writes is the truncation, not the rounding, of
\* value times the table's scale, under the table's code, the frequency paired
\* with the unit index; 1000.5 Hz on channel 1 with unit Hz is written as
\* ':w13=1000500,0.' and ':r15=5000.' is decoded as channel 1's amplitude 5.0.
C21_TruncatedScaling ==
    [][\A key \in {1, 2} \X DOMAIN ScaledTable :
          (Queues /\ widgets'[key] # widgets[key])
              => LET entry == ScaledTable[key[2]]
                     units == widgets'[key]
                 IN  /\ HasCode(QueuedFrame, entry[1] + key[1])
                     /\ WireValue(QueuedFrame) = Truncation(units, entry[2])
                     /\ key[2] = "frequency"
                            => /\ Len(FieldsOf(QueuedFrame)) = 2
                               /\ ToInt(StripChars(FieldsOf(QueuedFrame)[2], DotCrLf))
                                      = widgets'[<<key[1], "freq_unit">>]
                     /\ (key = <<1, "frequency">> /\ units = 1000500
                            /\ widgets'[<<1, "freq_unit">>] = 0)
                            => calls'[Len(calls')].cmd
                                   = <<":", "w", "1", "3", "=", "1", "0", "0", "0", "5",
                                       "0", "0", ",", "0", ".">>
                     /\ key = <<1, "amplitude">>
                            => notification_handler(<<>>, <<>>, "none",
                                                    <<":", "r", "1", "5", "=", "5", "0", "0",
                                                      "0", ".">> \o CRLF).status
                                   = (<<1, "amplitude">> :> Val(5000, 1000))]_vars

\* a duty of 0.29 % has been written as 28 and 1000.5 Hz as 1000500
C21_Witness ==
    /\ Len(calls) = 2
    /\ calls[1].cmd = <<":", "w", "1", "9", "=", "2", "8", ".">>
    /\ calls[2].cmd = <<":", "w", "1", "3", "=", "1", "0", "0", "0", "5", "0", "0", ",",
                        "0", ".">>

\* the declared domain of a parameter, in units of its resolution: the duty
\* in [0, 100] %, the phase in [0, 360) degrees
Domain == [duty |-> 0..10000, phase |-> 0..35999]

\* C22: a duty or phase outside the parameter's declared domain, the phase 360
\* included, is rejected before a frame is built: the step that gives a control
\* such a value queues nothing.
C22_OutOfDomainRejected ==
    [][\A key \in {1, 2} \X DOMAIN Domain :
          (widgets'[key] # widgets[key] /\ widgets'[key] \notin Domain[key[2]])
              => calls' = calls]_vars

(***************************************************************************)
(* The frames on the wire (C23)                                            *)
(***************************************************************************)
\* the frame grammar: ':' op code '=' field (',' field)? '.' CR LF with op w or
\* r, a two-digit code and unsigned decimal fields
MatchesGrammar(frame) ==
    /\ Len(frame) >= 9
    /\ frame[1] = ":"
    /\ frame[2] \in {"w", "r"}
    /\ AllDigits(SubSeq(frame, 3, 4))
    /\ frame[5] = "="
    /\ SubSeq(frame, Len(frame) - 2, Len(frame)) = <<".">> \o CRLF
    /\ LET fields == Split(SubSeq(frame, 6, Len(frame) - 3), ",")
       IN  /\ Len(fields) \in {1, 2}
           /\ \A k \in DOMAIN fields : AllDigits(fields[k])

\* C23: every frame passed to the transport's write matches the frame grammar,
\* whichever source it comes from: parameter writes, measurement and sweep
\* settings, the command line, the refresh.
C23_WrittenFramesWellFormed == \A k \in DOMAIN wlog : MatchesGrammar(wlog[k].frame)

(***************************************************************************)
(* A failed write (C24)                                                    *)
(***************************************************************************)
\* this step is the return of the dispatch loop's send_command from a write
\* that raised
WriteFails == mainPc = "write" /\ mainPc' \notin {"write", "settle"}

\* C24: when the dispatch loop's write fails the failure is reported as a
\* diagnostic, the command is not put back and no command is written twice, and
\* the loop, unless it was stopped, goes back to the queue, from which it writes
\* the next queued command.
C24_FailedWriteIsLost ==
    [][/\ WriteFails
          => /\ diag' = "send_error"
             /\ command_queue' = command_queue
             /\ running => mainPc' = "get"
       /\ (mainPc = "get" /\ mainPc' # "get" /\ command_queue # <<>> /\ is_connected)
          => /\ mainPc' = "write"
             /\ wlog'[1].frame = Wire(Head(command_queue).cmd)
             /\ command_queue' = Tail(command_queue)
       /\ (WritesNow /\ wlog # <<>> /\ wlog[1].src = "loop" /\ wlog'[1].src = "loop")
          => wlog'[1].seq > wlog[1].seq]_vars

\* the first command's write has failed, the second command is queued and the
\* loop is back at the queue, running and connected
C24_Witness ==
    /\ wlog # <<>>
    /\ wlog[1].lost
    /\ wlog[1].seq = 1
    /\ diag = "send_error"
    /\ mainPc = "get"
    /\ running
    /\ is_connected
    /\ command_queue # <<>>
    /\ Head(command_queue).seq = 2

(***************************************************************************)
(* Shutdown and pacing (C25, C26)                                          *)
(***************************************************************************)
\* C25: once stop has been requested no write to the transport starts, whether
\* stop came during the initial refresh or with commands still queued.
C25_NoWriteAfterStop == [][stopped => ~WritesNow]_vars

\* a caller of send_command is between the start of its write and the end of
\* the settle wait that follows it
Unsettled ==
    \/ mainPc \in {"write", "settle"}
    \/ \E t \in TaskIds : tasks[t].pc \in {"write", "settle"}

\* C26: no write to the transport, from the dispatch loop or from a refresh,
\* starts before the settle wait that follows the previous write has finished.
C26_WriteAfterSettle == [][WritesNow => ~Unsettled]_vars

(***************************************************************************)
(* What writes the device state (C27, C28)                                 *)
(***************************************************************************)
\* the codes whose read response carries the field key = <<channel, name>>
FieldCodes(key) ==
    IF key[2] = "output" THEN {10}
    ELSE IF key[2] = "freq_unit" THEN {12 + key[1]}
    ELSE {c \in 11..22 : <<ReadTable[c][1], ReadTable[c][2]>> = key}
             \cup {c \in DOMAIN ModulationSingle :
                      <<ModulationSingle[c][1], ModulationSingle[c][2]>> = key}
             \cup {c \in DOMAIN PairName : key[1] \in {1, 2} /\ PairName[c] = key[2]}

\* the fields of the device state this step adds or changes
Written == {key \in DOMAIN status' : key \notin DOMAIN status \/ status'[key] # status[key]}

\* C27: a field of the device state is added or changed only by the decoding
\* of an inbound read response that carries that field's code, and no field is
\* ever removed: nothing is defaulted and nothing else writes the state.
C27_OnlyDecodedFields ==
    [][/\ DOMAIN status \subseteq DOMAIN status'
       /\ \A key \in Written :
             /\ Delivers
             /\ \E c \in FieldCodes(key) : HasCode(Head(inbox), c)]_vars

\* C28: a measurement reading (codes 80..86) changes only its own field of the
\* measurement snapshot and no per-channel state field; a response of any other
\* code leaves the measurement snapshot as it is.
C28_MeasurementOnlySnapshot ==
    [][Delivers
          => /\ \A c \in 80..86 :
                   (HasCode(Head(inbox), c) /\ ~NonNumericFrame(Head(inbox)))
                       => /\ status' = status
                          /\ UpdatesExactly(measurement_data, measurement_data',
                                            {MeasurementKey[c][1]})
                          /\ SameValue(measurement_data'[MeasurementKey[c][1]],
                                       Val(WireValue(Head(inbox)), MeasurementKey[c][2]))
             /\ (\A c \in 80..86 : ~HasCode(Head(inbox), c))
                   => measurement_data' = measurement_data]_vars

\* a reading of code 81 was decoded after channel 1's waveform, which is kept
C28_Witness ==
    /\ inbox = <<>>
    /\ lastNotif.handled
    /\ HasCode(lastNotif.data, 81)
    /\ DOMAIN measurement_data = {"high_freq"}
    /\ DOMAIN status = {<<1, "waveform">>}

(***************************************************************************)
(* A failed connect (C29)                                                  *)
(***************************************************************************)
\* this step is the return of client.connect() by an exception
ConnectFails == mainPc = "connect" /\ mainPc' # "connect" /\ ~is_connected'

\* run_ble_client has ended without ever having connected
ConnectFailed == mainPc = "done" /\ ~EverConnected

Flag(field) == StripChars(field, DotCrLf) = <<"1">>

\* C30: a change of channel k's enable box queues ':w10=a,b.' in which the
\* field of channel k is the flag just requested and the field of the other
\* channel is that channel's flag as it was, each field '0' or '1'.
C30_OutputFrame ==
    [][\A k \in {1, 2} :
          (Queues /\ widgets'[<<k, "output">>] # widgets[<<k, "output">>])
              => LET fields == FieldsOf(QueuedFrame)
                 IN  /\ HasCode(QueuedFrame, 10)
                     /\ SubSeq(calls'[Len(calls')].cmd, 1, 5) = <<":", "w", "1", "0", "=">>
                     /\ Len(fields) = 2
                     /\ \A n \in {1, 2} :
                           StripChars(fields[n], DotCrLf) \in {<<"0">>, <<"1">>}
                     /\ Flag(fields[k]) = widgets'[<<k, "output">>]
                     /\ Flag(fields[3 - k]) = widgets[<<3 - k, "output">>]]_vars

\* channel 1 was switched on, then channel 2: the second frame keeps channel 1 on
C30_Witness ==
    /\ Len(calls) = 2
    /\ calls[1].cmd = <<":", "w", "1", "0", "=", "1", ",", "0", ".">>
    /\ calls[2].cmd = <<":", "w", "1", "0", "=", "1", ",", "1", ".">>

(***************************************************************************)
(* The terminator (C31)                                                    *)
(***************************************************************************)
\* C31: every frame passed to write_gatt_char ends with CR LF; a queued command
\* that ends with CR LF already is written as it is, any other with CR LF
\* appended once.
C31_TerminatedOnce ==
    [][WritesNow
          => /\ EndsWith(wlog'[1].frame, CRLF)
             /\ (mainPc = "get" /\ mainPc' = "write")
                   => LET command == Head(command_queue).cmd
                      IN  /\ EndsWith(command, CRLF) => wlog'[1].frame = command
                          /\ ~EndsWith(command, CRLF)
                                => /\ Len(wlog'[1].frame) = Len(command) + 2
                                   /\ SubSeq(wlog'[1].frame, 1, Len(command)) = command]_vars

\* the command ':w12=1.' queued with its terminator has been written unchanged
C31_Witness ==
    /\ wlog # <<>>
    /\ wlog[1].src = "loop"
    /\ wlog[1].frame = <<":", "w", "1", "2", "=", "1", ".", "\r", "\n">>

(***************************************************************************)
(* C32: showing a read response queues no write                            *)
(***************************************************************************)
\* the window's thread handles a status_updated signal in this step
ShowsStatus ==
    /\ uiSignals # <<>>
    /\ Head(uiSignals) = "status"
    /\ uiSignals' = Tail(uiSignals)

\* C32: processing a read response never causes a write frame to be queued:
\* the step in which the window shows the decoded status adds no ':w' command
\* to the worker's queue
C32_ReadQueuesNoWrite ==
    [][ShowsStatus
          => \A i \in DOMAIN calls' :
                 (i > Len(calls) /\ calls'[i].kind = "put")
                     => ~StartsWith(calls'[i].cmd, <<":", "w">>)]_vars

(***************************************************************************)
(* C33: the controls are disabled while a refresh runs                     *)
(***************************************************************************)
\* C33: the controls are enabled only when no refresh sequence is running:
\* once the window has handled every refresh signal emitted so far, enabled
\* controls mean that no refresh is between its started and its completed
C33_DisabledWhileRefreshing ==
    (uiEnabled /\ uiSignals = <<>>) => \A t \in TaskIds : ~Running(t)

(***************************************************************************)
(* C34: the channels of the status dictionary                              *)
(***************************************************************************)
\* C34: in every reachable state every per-channel key of the status
\* dictionary is a key of channel 1 or of channel 2
C34_KnownChannels == \A key \in DOMAIN status : key[1] \in {1, 2}

(***************************************************************************)
(* C35: queued commands wait for the initial refresh                       *)
(***************************************************************************)
\* C35: no command of the command queue is written before the initial refresh
\* has emitted completed, and the queued commands - those queued during the
\* initial refresh among them - are written in their enqueue order: the command
\* written is older than every command still waiting
C35_AfterInitialRefresh ==
    [][(WritesNow /\ wlog'[1].src = "loop")
          => /\ tasks[0].pc = "done"
             /\ wlog'[1].seq = Head(command_queue).seq
             /\ wlog'[1].during = Head(command_queue).during
             /\ \A k \in 2..Len(command_queue) :
                    command_queue[k].seq > Head(command_queue).seq
             /\ \A k \in DOMAIN calls :
                    calls[k].kind = "put" => calls[k].seq > Head(command_queue).seq]_vars

\* C35 witness: of two commands queued during the initial refresh the first
\* has been written and the second waits in the queue
C35_Witness ==
    /\ wlog # <<>>
    /\ wlog[1].src = "loop"
    /\ wlog[1].during
    /\ command_queue # <<>>
    /\ Head(command_queue).during
    /\ Head(command_queue).seq = wlog[1].seq + 1

(***************************************************************************)
(* C36: notifications that are not read responses                          *)
(***************************************************************************)
\* a write echo, and a read response that arrives behind the line end of the
\* frame before it
WriteEcho == <<":", "w", "1", "1", "=", "0", ".", "\r", "\n">>
LateReadResponse == <<"\r", "\n", ":", "r", "1", "2", "=", "4", ".", "\r", "\n">>

\* C36 as stated: a notification that does not begin with ':r' is reported as
\* received, leaves the status dictionary and the measurement snapshot
\* unchanged and emits no status_updated and no measurement_updated.
C36_OnlyReadPrefix ==
    [][(Delivers /\ ~StartsWith(Head(inbox), <<":", "r">>))
          => /\ lastNotif'.received
             /\ status' = status
             /\ measurement_data' = measurement_data
             /\ ~lastNotif'.status_updated
             /\ ~lastNotif'.measurement_updated]_vars

\* C36 amended: only a notification whose decoded text begins with ':r' once
\* its surrounding whitespace is removed can change the status dictionary or
\* the measurement snapshot.  Any other decodable notification is reported as
\* received and nothing else happens; bytes that are not UTF-8 are reported as
\* an error instead of as received, and change nothing either.
C36_OnlyStrippedReadPrefix ==
    [][Delivers
          => /\ (~Decodable(Head(inbox)) \/ ~StartsWith(Strip(Head(inbox)), <<":", "r">>))
                   => /\ status' = status
                      /\ measurement_data' = measurement_data
                      /\ ~lastNotif'.status_updated
                      /\ ~lastNotif'.measurement_updated
                      /\ uiSignals' = uiSignals
             /\ (Decodable(Head(inbox)) /\ ~StartsWith(Strip(Head(inbox)), <<":", "r">>))
                   => (lastNotif'.received /\ diag' = diag)
             /\ ~Decodable(Head(inbox))
                   => (~lastNotif'.received /\ diag' = "notification_error")
             /\ Head(inbox) = LateReadResponse
                   => /\ lastNotif'.received
                      /\ lastNotif'.status_updated
                      /\ <<2, "waveform">> \in DOMAIN status'
                      /\ status'[<<2, "waveform">>] = Val(4, 1)]_vars

\* C36 witness: a write echo has been handled after a response that filled the
\* status dictionary: it was reported as received and not parsed
C36_Witness ==
    /\ lastNotif.handled
    /\ lastNotif.data = WriteEcho
    /\ lastNotif.received
    /\ ~lastNotif.parsed
    /\ status # <<>>

(***************************************************************************)
(* C37: a queued command is written                                        *)
(***************************************************************************)
\* the command numbered s was queued after the connect and waits for its put
\* or in the queue
Waits(s) ==
    \/ \E k \in DOMAIN calls :
           calls[k].kind = "put" /\ calls[k].seq = s /\ ~calls[k].early
    \/ \E k \in DOMAIN command_queue :
           command_queue[k].seq = s /\ ~command_queue[k].early

\* the latest call of write_gatt_char was given the command numbered s
WrittenLast(s) == wlog # <<>> /\ wlog[1].src = "loop" /\ wlog[1].seq = s

\* the link is down, stop was requested or run_ble_client has left its try block
SessionOver ==
    \/ ~is_connected
    \/ stopped
    \/ mainPc \in {"stopnotify", "disconnect", "done"}

FrequencyPair(st, channel) ==
    [key \in {<<channel, "frequency">>, <<channel, "freq_unit">>} \cap DOMAIN st |-> st[key]]

\* a frequency response whose failed unit conversion leaves both fields alone
BadUnitFrame == <<":", "r", "1", "3", "=", "1", "0", "0", "0", ",", "x", ".", "\r", "\n">>

\* C38: a frequency response updates the channel's frequency and unit together
\* or not at all: a channel has both or neither, and when a notification
\* changes either of them it is a response with the channel's code whose two
\* fields become the stored frequency and the stored unit
C38_FrequencyWithUnit ==
    [][Delivers
          => \A channel \in {1, 2} :
                /\ (<<channel, "frequency">> \in DOMAIN status')
                       <=> (<<channel, "freq_unit">> \in DOMAIN status')
                /\ FrequencyPair(status', channel) # FrequencyPair(status, channel)
                       => /\ HasCode(Head(inbox), 12 + channel)
                          /\ Len(FieldsOf(Head(inbox))) >= 2
                          /\ status'[<<channel, "frequency">>]
                                = Val(ToInt(Strip(FieldsOf(Head(inbox))[1])), 1000)
                          /\ status'[<<channel, "freq_unit">>]
                                = Val(ToInt(StripChars(FieldsOf(Head(inbox))[2], DotCrLf)), 1)]_vars

\* C38 witness: after a frequency response was stored, one with a unit that is
\* no number has raised and both fields are those of the first
C38_Witness ==
    /\ lastNotif.handled
    /\ lastNotif.data = BadUnitFrame
    /\ lastNotif.raised
    /\ <<1, "frequency">> \in DOMAIN status
    /\ status[<<1, "frequency">>] = Val(1000, 1000)
    /\ status[<<1, "freq_unit">>] = Val(1, 1)

(***************************************************************************)
(* C39: apply all                                                          *)
(***************************************************************************)
\* 'apply all' has been clicked: its commands are the latest ApplyCount queued
Applied == nCmds >= ApplyCount

\* the place in ApplyOrder of the command numbered s
ApplyIndex(s) == s - (nCmds - ApplyCount)

\* C39: apply-all for channel k queues the writes for waveform, frequency,
\* amplitude, offset, duty and phase of channel k and then the output write, in
\* this order; they reach the transport in this order, and when the output
\* frame is written none of the other six is still waiting
C39_OutputLast ==
    [][/\ (nCmds' = nCmds + ApplyCount /\ loop)
            => \E channel \in {1, 2} :
                  /\ Len(calls') = Len(calls) + ApplyCount
                  /\ \A i \in 1..ApplyCount :
                        /\ calls'[Len(calls) + i].seq = nCmds + i
                        /\ calls'[Len(calls) + i].cmd
                              = update_parameter(widgets, channel, ApplyOrder[i])
       /\ (WritesNow /\ wlog'[1].src = "loop" /\ Applied
              /\ ApplyIndex(wlog'[1].seq) >= 1)
            => /\ \E channel \in {1, 2} :
                     wlog'[1].frame
                       = Wire(update_parameter(widgets, channel,
                                               ApplyOrder[ApplyIndex(wlog'[1].seq)]))
               /\ ApplyIndex(wlog'[1].seq) = ApplyCount
                     => /\ command_queue' = <<>>
                        /\ \A k \in DOMAIN calls' : calls'[k].kind # "put"]_vars

\* C39 witness: the output frame of an apply-all, its seventh command, has been
\* written
C39_Witness ==
    /\ Applied
    /\ wlog # <<>>
    /\ wlog[1].src = "loop"
    /\ wlog[1].seq = nCmds
    /\ StartsWith(wlog[1].frame, <<":", "w", "1", "0", "=">>)

====
